---- MODULE Spec2Model ----
(***************************************************************************)
(* Model of the exodus agent execution engine: AgentEngine.run_loop        *)
(* (exodus/agent_engine.py), the handoff supervision loop of               *)
(* ChatSession.send_message_stream (exodus/cli/session.py), the context    *)
(* store (exodus/core/memory/local_json_memory.py), the agent registry and *)
(* the tool dispatch layer (exodus/core/tools/tool_executor.py).           *)
(*                                                                         *)
(* Strings are modelled as sequences of tokens, so that an f-string is a   *)
(* concatenation and startswith / replace act on tokens.  Optional[T] is   *)
(* modelled as a set with at most one element: None is {} and a value x    *)
(* is {x}.                                                                 *)
(*                                                                         *)
(* send_message_stream consumes the run with `async for` and looks for an  *)
(* AgentChange event; run_loop returns an Optional[HandoffRequest].  The   *)
(* model relays the value run_loop returns to the orchestrator as the      *)
(* agent change (new_agent_name = target_agent_name, reason = reason).     *)
(*                                                                         *)
(* Ten specifications share the module.  Spec is the chat session: one     *)
(* request at a time through send_message_stream and run_loop.  MemSpec    *)
(* drives a LocalJsonMemoryManager directly with add, clear, save and      *)
(* load.  ExecSpec is the executor service                                 *)
(* (exodus/server/exodus_executor.py): the accept loop, one handler thread *)
(* per connection, and the clients; FramingSpec is the same service with   *)
(* clients that break the framing or hang up.  ToolSpec calls              *)
(* ToolExecutor.execute with either driver.  RegistrySpec fills an         *)
(* AgentRegistry and builds engines from it.  Each leaves the others'      *)
(* variables alone.  Four more specifications vary these: TruncatedSpec    *)
(* is MemSpec in a workspace with a snapshot cut short, ClearSpec and      *)
(* SwitchSpec are the chat session with clear_history and switch_agent     *)
(* between requests, StartupSpec is the executor service after each        *)
(* outcome of its start-up.                                                *)
(***************************************************************************)
EXTENDS Integers, Sequences, FiniteSets, TLC

\* ---------------------------------------------------------------- bounds
MaxIterations == 2   \* settings "agent.max_iterations" of the checked runs
MaxToolCalls  == 3   \* most tool calls the model emits over the whole behaviour
MaxModelCalls == 3   \* most model calls over the whole behaviour

\* ------------------------------------------------------------- constants
None == {}
Some(x) == {x}

TransferPrefix == "transfer_to_"

AgentA == <<"A">>
AgentB == <<"B">>
AgentZ == <<"Z">>          \* a name no agent is registered under

\* the [agent] tables of the TOML files beyond name, system_prompt and
\* handoffs: A sets its own max_iterations, below the global setting;
\* B sets nothing more
AgentData ==
  [n \in {AgentA, AgentB} |->
     IF n = AgentA THEN [max_iterations |-> MaxIterations - 1, verbose |-> TRUE]
     ELSE [k \in {} |-> 0]]

\* AgentDefinition.from_toml, the config it builds: the global defaults,
\* updated with every key of the table that is not a known one
from_toml_config(agent_data) ==
  LET known_keys == {"name", "description", "system_prompt", "tools", "llm", "handoffs"}
      defaults   == [max_iterations |-> MaxIterations, execution_mode |-> "local"]
      extra      == DOMAIN agent_data \ known_keys IN
  [k \in DOMAIN defaults \cup extra |->
     IF k \in extra THEN agent_data[k] ELSE defaults[k]]

\* agent_registry._agents after start-up: name -> AgentDefinition
AgentDefs ==
  [n \in {AgentA, AgentB} |->
     [name          |-> n,
      system_prompt |-> <<"You are ", n[1]>>,
      handoffs      |-> IF n = AgentA THEN {AgentB} ELSE {AgentA},
      config        |-> from_toml_config(AgentData[n])]]

\* AgentRegistry.get_agent: the definition, or the ValueError it raises
get_agent(agent_name) ==
  IF agent_name \notin DOMAIN AgentDefs
    THEN [raised |-> TRUE,  value |-> {}]
    ELSE [raised |-> FALSE, value |-> {AgentDefs[agent_name]}]

\* tool_registry._tools after start-up
RegisteredTools == {<<"core_sum">>}

\* ToolPluginRegistry.get_tool: found, or the text of the ValueError
get_tool(tool_name) ==
  IF tool_name \notin RegisteredTools
    THEN [raised |-> TRUE,  text |-> <<"Tool ">> \o tool_name \o <<" not found">>]
    ELSE [raised |-> FALSE, text |-> <<>>]

\* ------------------------------------------------- arguments (JSON text)
ArgsSum      == "{\"a\": 3, \"b\": 5}"
ArgsReason   == "{\"reason\": \"need B\"}"
ArgsEmpty    == "{}"
ArgsBadJson  == "{\"a\": 3, \"b\": "

\* json.loads: [raised] on text that is not JSON, else the parsed object,
\* of which the model keeps the "reason" member (None when absent)
json_loads(text) ==
  CASE text = ArgsBadJson -> [raised |-> TRUE,  reason |-> {}]
    [] text = ArgsReason  -> [raised |-> FALSE, reason |-> {<<"need B">>}]
    [] OTHER              -> [raised |-> FALSE, reason |-> {}]

\* function_args.get("reason", "No reason provided")
ReasonOf(function_args) ==
  IF function_args.reason = {} THEN <<"No reason provided">>
  ELSE CHOOSE r \in function_args.reason : TRUE

\* function_name.startswith("transfer_to_")
IsHandoffName(function_name) ==
  Len(function_name) >= 1 /\ function_name[1] = TransferPrefix

\* function_name.replace("transfer_to_", "")
TargetOf(function_name) ==
  SelectSeq(function_name, LAMBDA t : t # TransferPrefix)

\* ------------------------------------------------------------- messages
Message(role, content, tool_calls, tool_call_id, name, agent_name) ==
  [role |-> role, content |-> content, tool_calls |-> tool_calls,
   tool_call_id |-> tool_call_id, name |-> name, agent_name |-> agent_name]

\* Message(role="user", content=user_input, timestamp=now)
UserMessage(text) == Message("user", text, None, None, None, None)

\* the assistant message of run_loop; tool_calls is None for a final answer
AssistantMessage(content, tool_calls, agent) ==
  Message("assistant", content, tool_calls, None, None, Some(agent))

\* a tool-role message appended by run_loop
ToolMessage(content, tool_call_id, function_name, agent) ==
  Message("tool", content, None, Some(tool_call_id), Some(function_name), Some(agent))

\* a tool-role message appended by send_message_stream
OrchestratorNote(content) == Message("tool", content, None, None, None, None)

\* f"[Transferring to {target_agent_name}]"
TransferAck(target) == <<"[Transferring to ">> \o target \o <<"]">>

\* f"[Handoff from {current_agent_name} to {new_agent_name}: {reason}]"
HandoffNote(current, new, reason) ==
  <<"[Handoff from ">> \o current \o <<" to ">> \o new \o <<": ">> \o reason \o <<"]">>

\* f"[Error] Cannot transfer to '{new_agent_name}': Agent not found."
HandoffError(new) ==
  <<"[Error] Cannot transfer to '">> \o new \o <<"': Agent not found.">>

\* f"Error: {str(e)}"
ErrorContent(text) == <<"Error: ">> \o text

ContinuationInput ==
  <<"You have been reassigned by the previous agent. Continue with the conversation">>

add_memory_Compacting(mem, message) ==
  LET all == Append(mem, message) IN
  IF Len(all) > 4 THEN SubSeq(all, Len(all) - 3, Len(all)) ELSE all

\* LocalJsonMemoryManager.add_memory
add_memory(mem, message) == Append(mem, message)

\* Message.to_openai_format: role and content always, tool_calls when set,
\* tool_call_id and name only on a tool-role message; agent_name is dropped
to_openai_format(m) ==
  [role         |-> m.role,
   content      |-> m.content,
   tool_calls   |-> m.tool_calls,
   tool_call_id |-> IF m.role = "tool" THEN m.tool_call_id ELSE None,
   name         |-> IF m.role = "tool" THEN m.name ELSE None]

get_llm_context_Compacted(mem) ==
  LET kept == IF Len(mem) > 2 THEN SubSeq(mem, Len(mem) - 1, Len(mem)) ELSE mem IN
  [i \in 1..Len(kept) |-> to_openai_format(kept[i])]

\* MemoryManager.get_llm_context: every stored message, in order
get_llm_context(mem) == [i \in 1..Len(mem) |-> to_openai_format(mem[i])]

\* the {"role": "system", "content": system_prompt} entry run_loop inserts
SystemEntry(system_prompt) ==
  [role |-> "system", content |-> system_prompt, tool_calls |-> None,
   tool_call_id |-> None, name |-> None]

BuildContext_PromptLast(definition, mem) ==
  Append(get_llm_context(mem), SystemEntry(definition.system_prompt))

\* the context run_loop hands to generate: the agent's system prompt at
\* position 0, then the whole history
BuildContext(definition, mem) ==
  <<SystemEntry(definition.system_prompt)>> \o get_llm_context(mem)

\* ------------------------------------------------------- tool dispatch
\* the native capability core_sum(a, b), run by the in-process driver;
\* the engine stores str(tool_result)
core_sum(arguments) == IF arguments = ArgsSum THEN <<"8">>
                       ELSE <<"Failed to execute tool: ", "missing arguments">>

\* ToolExecutor.execute: the string the driver returns, or the ValueError
\* that wraps whatever was raised inside its try block
execute(tool_name, arguments) ==
  LET found == get_tool(tool_name) IN
  IF found.raised
    THEN [raised |-> TRUE,
          text   |-> <<"Failed to execute tool ">> \o tool_name \o <<": ">> \o found.text]
    ELSE [raised |-> FALSE, text |-> core_sum(arguments)]

\* -------------------------------------------------- what the model emits
FunctionCalls ==
  { [name |-> <<"core_sum">>,            arguments |-> ArgsSum],
    [name |-> <<"core_sum">>,            arguments |-> ArgsBadJson],
    [name |-> <<"nope">>,                arguments |-> ArgsEmpty],
    [name |-> <<TransferPrefix>> \o AgentA, arguments |-> ArgsEmpty],
    [name |-> <<TransferPrefix>> \o AgentB, arguments |-> ArgsReason],
    [name |-> <<TransferPrefix>> \o AgentZ, arguments |-> ArgsReason] }

\* response.get_tool_calls() of a response with k calls
Batches(k) == UNION { [1..n -> FunctionCalls] : n \in 0..k }

UserInputs == { <<"do X">> }

\* ---------------------------------------------------------------- state
VARIABLES
  memory,            \* memory_manager._short_term_memory
  agent_definition,  \* ChatSession.agent_definition
  agent_engine,      \* ChatSession.agent_engine: its agent, loop_count
  pc,                \* where the request is
  current_input,     \* send_message_stream's current_input
  tool_calls,        \* run_loop's tool_calls
  idx,               \* position of the for loop in tool_calls
  result,            \* what run_loop returned: None or a HandoffRequest
  nModelCalls,       \* history: llm_provider.generate calls made
  nToolCalls,        \* history: tool calls emitted by the model
  batchStart,        \* history: index in memory of the last tool-call assistant message
  dispatched,        \* history: call ids handed to tool_executor.execute, in order
  raisedBy,          \* history: what raised out of run_loop
  atHandoff,         \* history: the store when run_loop last returned a HandoffRequest
  context            \* run_loop's local: the context of the latest model call

session == <<memory, agent_definition, agent_engine, pc, current_input, tool_calls,
             idx, result, nModelCalls, nToolCalls, batchStart, dispatched, raisedBy,
             atHandoff, context>>

\* a LocalJsonMemoryManager driven directly (save, clear, load), with the
\* files of its workspace and the wall clock its callers stamp messages with
VARIABLES
  store,              \* LocalJsonMemoryManager._short_term_memory
  short_term_memory,  \* the attribute load_memory assigns (no underscore)
  files,              \* the workspace: file name -> None or Some(text)
  now,                \* datetime.now(), in half seconds
  last,               \* history: the operations applied, latest last
  nOps                \* history: operations applied

persistence == <<store, short_term_memory, files, now, last, nOps>>

\* the executor service: its accept loop, one handler thread per accepted
\* connection, and the clients' ends of the connections
VARIABLES
  is_running,     \* ExodusExecutor.is_running
  client_socket,  \* per connection: its state and the frames in flight each way
  thread,         \* per connection: where _handle_client is, and its locals
  requests,       \* history: the frames each client sent, in order
  socket_path,    \* whether /tmp/exodus/executor.sock exists
  client_result   \* per client call: what send_message returned, if it has

server == <<is_running, client_socket, thread, requests, socket_path, client_result>>

\* a ToolExecutor called directly, tool by tool
VARIABLES
  execution_mode,  \* ToolExecutor.execution_mode: which driver it holds
  executed         \* history: the execute calls made and what each gave

dispatch == <<execution_mode, executed>>

\* an AgentRegistry filled by register_agent calls, and an engine built
\* from it
VARIABLES
  agents,      \* AgentRegistry._agents: the dict, as its items in order
  registered,  \* history: the definitions passed to register_agent, in order
  got,         \* history: the get_agent calls, each with the dict before it
  built        \* the engine built last: its definition and all_tools_schema

registry == <<agents, registered, got, built>>

\* what ExodusExecutor.__init__ left behind, and what run() logged
VARIABLES
  server_socket,  \* ExodusExecutor._socket: "listening", "closed" or "none"
  logged          \* history: errors logged by the body of run()'s loop

boot == <<server_socket, logged>>

outside_session == <<persistence, server, dispatch, registry, boot>>

outside_persistence == <<session, server, dispatch, registry, boot>>

outside_server == <<session, persistence, dispatch, registry, boot>>

outside_dispatch == <<session, persistence, server, registry, boot>>

outside_registry == <<session, persistence, server, dispatch, boot>>

outside_boot == <<session, persistence, server, dispatch, registry>>

vars == <<session, persistence, server, dispatch, registry, boot>>

MaxConns == 2

Conns == 1..MaxConns

\* ExodusExecutor.__init__ done (the socket is bound and listens), run()
\* not called yet, no client yet
ServerStart ==
  /\ is_running = FALSE
  /\ client_socket = [c \in Conns |->
                        [state |-> "unused", inbound |-> <<>>, outbound |-> <<>>,
                         after_error |-> FALSE, peer |-> "open"]]
  /\ thread = [c \in Conns |->
                 [pc |-> "none", message |-> None, call |-> None, response |-> None,
                  error |-> <<>>]]
  /\ requests = [c \in Conns |-> <<>>]
  /\ client_result = [c \in Conns |-> None]

\* __init__ went through: the socket is bound and listens
BootStart ==
  /\ server_socket = "listening"
  /\ logged = 0

\* a ToolExecutor of the default mode that has executed nothing
DispatchStart ==
  /\ execution_mode = "local"
  /\ executed = <<>>

\* an empty AgentRegistry, and no engine
RegistryStart ==
  /\ agents = <<>>
  /\ registered = <<>>
  /\ got = <<>>
  /\ built = None

\* a workspace without files and a manager just constructed
Files == {"session.json", "old.json"}

FreshManager ==
  /\ store = <<>>
  /\ short_term_memory = None
  /\ now = 0
  /\ last = <<>>
  /\ nOps = 0

\* the LocalJsonMemoryManager the session builds in _initialize_components
SessionMemoryManager == "session.memory_manager"

\* AgentEngine.__init__
AgentEngine(memory_manager, definition, initial_loop_count, id) ==
  [memory_manager |-> memory_manager, agent_definition |-> definition,
   loop_count |-> initial_loop_count, id |-> id]

\* ChatSession.__init__ / _initialize_components
SessionStart ==
  /\ memory = <<>>
  /\ agent_definition = AgentDefs[AgentA]
  /\ agent_engine = AgentEngine(SessionMemoryManager, AgentDefs[AgentA], 0, 1)
  /\ pc = "idle"
  /\ current_input = <<>>
  /\ tool_calls = <<>>
  /\ idx = 0
  /\ result = None
  /\ nModelCalls = 0
  /\ nToolCalls = 0
  /\ batchStart = 0
  /\ dispatched = <<>>
  /\ raisedBy = "none"
  /\ atHandoff = <<>>
  /\ context = <<>>

Init ==
  /\ SessionStart
  /\ FreshManager
  /\ files = [f \in Files |-> None]
  /\ ServerStart
  /\ socket_path = TRUE
  /\ DispatchStart
  /\ RegistryStart
  /\ BootStart

\* ------------------------------------------------------------ run_loop
LoopCondition_Inclusive(loop_count) == loop_count <= MaxIterations

\* the while condition: self.loop_count < settings.get("agent.max_iterations", 100)
LoopCondition(loop_count) == loop_count < MaxIterations

DispatchOutcome_NoExcept(tool_call, agent) ==
  LET outcome == execute(tool_call.function.name, tool_call.function.arguments) IN
  [escapes |-> outcome.raised,
   message |-> ToolMessage(outcome.text, tool_call.id, tool_call.function.name, agent)]

DispatchOutcome_ErrorWithoutId(tool_call, agent) ==
  LET outcome == execute(tool_call.function.name, tool_call.function.arguments) IN
  [escapes |-> FALSE,
   message |-> IF outcome.raised
               THEN Message("tool", ErrorContent(outcome.text), None, None,
                            Some(tool_call.function.name), Some(agent))
               ELSE ToolMessage(outcome.text, tool_call.id, tool_call.function.name, agent)]

\* the try / except around tool_executor.execute: the tool-role message that
\* is appended, and whether an exception leaves the block
DispatchOutcome(tool_call, agent) ==
  LET outcome == execute(tool_call.function.name, tool_call.function.arguments) IN
  [escapes |-> FALSE,
   message |-> ToolMessage(IF outcome.raised THEN ErrorContent(outcome.text)
                           ELSE outcome.text,
                           tool_call.id, tool_call.function.name, agent)]

\* the handoff branch: the acknowledgment appended and the request returned
HandoffOutcome(tool_call, agent) ==
  LET function_name == tool_call.function.name
      target        == TargetOf(function_name)
      function_args == json_loads(tool_call.function.arguments) IN
  [message |-> ToolMessage(TransferAck(target), tool_call.id, function_name, agent),
   request |-> [target_agent_name |-> target, reason |-> ReasonOf(function_args)]]

\* app.py chat loop: loop_count reset for a new query, then
\* send_message_stream(user_input) sets current_input
SendMessage(user_input) ==
  /\ pc = "idle"
  /\ nModelCalls < MaxModelCalls
  /\ agent_engine' = [agent_engine EXCEPT !.loop_count = 0]
  /\ current_input' = user_input
  /\ pc' = "run_start"
  /\ raisedBy' = "none"
  /\ UNCHANGED <<atHandoff, context, memory, agent_definition, tool_calls, idx, result, nModelCalls,
                 nToolCalls, batchStart, dispatched>>
  /\ UNCHANGED outside_session

\* run_loop entry: the user turn is appended when the input is not empty
RunLoopEntry ==
  /\ pc = "run_start"
  /\ memory' = IF current_input # <<>>
                THEN add_memory(memory, UserMessage(current_input))
                ELSE memory
  /\ result' = None
  /\ pc' = "loop_head"
  /\ UNCHANGED <<atHandoff, context, agent_definition, agent_engine, current_input, tool_calls, idx,
                 nModelCalls, nToolCalls, batchStart, dispatched, raisedBy>>
  /\ UNCHANGED outside_session

\* the loop condition holds: the context is built and generate is awaited
CallModel ==
  /\ pc = "loop_head"
  /\ LoopCondition(agent_engine.loop_count)
  /\ nModelCalls < MaxModelCalls
  /\ context' = BuildContext(agent_engine.agent_definition, memory)
  /\ nModelCalls' = nModelCalls + 1
  /\ pc' = "await_model"
  /\ UNCHANGED <<atHandoff, memory, agent_definition, agent_engine, current_input, tool_calls,
                 idx, result, nToolCalls, batchStart, dispatched, raisedBy>>
  /\ UNCHANGED outside_session

\* the loop condition fails: return None
LoopExit ==
  /\ pc = "loop_head"
  /\ ~LoopCondition(agent_engine.loop_count)
  /\ result' = None
  /\ pc' = "returned"
  /\ UNCHANGED <<atHandoff, context, memory, agent_definition, agent_engine, current_input, tool_calls,
                 idx, nModelCalls, nToolCalls, batchStart, dispatched, raisedBy>>
  /\ UNCHANGED outside_session

ModelFails_Retry ==
  /\ pc = "await_model"
  /\ pc' = "loop_head"
  /\ raisedBy' = "model"
  /\ UNCHANGED <<atHandoff, context, memory, agent_definition, agent_engine, current_input,
                 tool_calls, idx, result, nModelCalls, nToolCalls, batchStart, dispatched>>
  /\ UNCHANGED outside_session

\* generate raises: the error leaves run_loop
ModelFails ==
  /\ pc = "await_model"
  /\ pc' = "raised"
  /\ raisedBy' = "model"
  /\ UNCHANGED <<atHandoff, context, memory, agent_definition, agent_engine, current_input, tool_calls,
                 idx, result, nModelCalls, nToolCalls, batchStart, dispatched>>
  /\ UNCHANGED outside_session

ModelAnswers_NoBreak ==
  /\ pc = "await_model"
  /\ memory' = add_memory(memory,
                  AssistantMessage(<<"answer">>, None, agent_engine.agent_definition.name))
  /\ agent_engine' = [agent_engine EXCEPT !.loop_count = @ + 1]
  /\ pc' = "loop_head"
  /\ UNCHANGED <<atHandoff, context, agent_definition, current_input, tool_calls, idx,
                 result, nModelCalls, nToolCalls, batchStart, dispatched, raisedBy>>
  /\ UNCHANGED outside_session

\* a response without tool calls: final assistant message, break, return None
ModelAnswers ==
  /\ pc = "await_model"
  /\ memory' = add_memory(memory,
                  AssistantMessage(<<"answer">>, None, agent_engine.agent_definition.name))
  /\ result' = None
  /\ pc' = "returned"
  /\ UNCHANGED <<atHandoff, context, agent_definition, agent_engine, current_input, tool_calls, idx,
                 nModelCalls, nToolCalls, batchStart, dispatched, raisedBy>>
  /\ UNCHANGED outside_session

\* a response with tool calls: the assistant message carries the calls
ModelCallsTools(batch) ==
  /\ pc = "await_model"
  /\ LET calls == [i \in 1..Len(batch) |->
                     [id |-> nToolCalls + i, function |-> batch[i]]] IN
       /\ tool_calls' = calls
       /\ memory' = add_memory(memory,
                       AssistantMessage(<<>>, Some(calls), agent_engine.agent_definition.name))
  /\ batchStart' = Len(memory')
  /\ nToolCalls' = nToolCalls + Len(batch)
  /\ idx' = 1
  /\ pc' = "tools"
  /\ UNCHANGED <<atHandoff, context, agent_definition, agent_engine, current_input, result, nModelCalls,
                 dispatched, raisedBy>>
  /\ UNCHANGED outside_session

\* json.loads(tool_call.function.arguments) raises: the error leaves run_loop
ArgumentsRaise ==
  /\ pc = "tools"
  /\ idx <= Len(tool_calls)
  /\ json_loads(tool_calls[idx].function.arguments).raised
  /\ pc' = "raised"
  /\ raisedBy' = "json"
  /\ UNCHANGED <<atHandoff, context, memory, agent_definition, agent_engine, current_input, tool_calls,
                 idx, result, nModelCalls, nToolCalls, batchStart, dispatched>>
  /\ UNCHANGED outside_session

\* a transfer_to_ call: acknowledgment appended, HandoffRequest returned
HandoffCall ==
  /\ pc = "tools"
  /\ idx <= Len(tool_calls)
  /\ ~json_loads(tool_calls[idx].function.arguments).raised
  /\ IsHandoffName(tool_calls[idx].function.name)
  /\ LET out == HandoffOutcome(tool_calls[idx], agent_engine.agent_definition.name) IN
       /\ memory' = add_memory(memory, out.message)
       /\ result' = Some(out.request)
  /\ atHandoff' = memory'
  /\ pc' = "returned"
  /\ UNCHANGED <<context, agent_definition, agent_engine, current_input, tool_calls, idx,
                 nModelCalls, nToolCalls, batchStart, dispatched, raisedBy>>
  /\ UNCHANGED outside_session

\* a regular call: tool_executor.execute is awaited
DispatchTool ==
  /\ pc = "tools"
  /\ idx <= Len(tool_calls)
  /\ ~json_loads(tool_calls[idx].function.arguments).raised
  /\ ~IsHandoffName(tool_calls[idx].function.name)
  /\ dispatched' = Append(dispatched, tool_calls[idx].id)
  /\ pc' = "in_tool"
  /\ UNCHANGED <<atHandoff, context, memory, agent_definition, agent_engine, current_input, tool_calls,
                 idx, result, nModelCalls, nToolCalls, batchStart, raisedBy>>
  /\ UNCHANGED outside_session

\* execute has returned or raised: the tool-role message is appended
ToolDone ==
  /\ pc = "in_tool"
  /\ LET out == DispatchOutcome(tool_calls[idx], agent_engine.agent_definition.name) IN
       IF out.escapes
         THEN /\ pc' = "raised"
              /\ raisedBy' = "tool"
              /\ UNCHANGED <<memory, idx>>
         ELSE /\ memory' = add_memory(memory, out.message)
              /\ idx' = idx + 1
              /\ pc' = "tools"
              /\ UNCHANGED raisedBy
  /\ UNCHANGED <<atHandoff, context, agent_definition, agent_engine, current_input, tool_calls, result,
                 nModelCalls, nToolCalls, batchStart, dispatched>>
  /\ UNCHANGED outside_session

\* the for loop is exhausted: self.loop_count += 1, back to the while test
EndIteration ==
  /\ pc = "tools"
  /\ idx > Len(tool_calls)
  /\ agent_engine' = [agent_engine EXCEPT !.loop_count = @ + 1]
  /\ pc' = "loop_head"
  /\ UNCHANGED <<atHandoff, context, memory, agent_definition, current_input, tool_calls, idx, result,
                 nModelCalls, nToolCalls, batchStart, dispatched, raisedBy>>
  /\ UNCHANGED outside_session

\* ------------------------------------------------ send_message_stream
RebuildEngine_CounterReset(new_agent, engine) ==
  AgentEngine(engine.memory_manager, new_agent, 0, engine.id + 1)

\* the rebuilt engine: same stores, new agent, initial_loop_count=current_loop_count
RebuildEngine(new_agent, engine) ==
  AgentEngine(engine.memory_manager, new_agent, engine.loop_count, engine.id + 1)

HandleHandoff_NoteBeforeLookup(request, definition, engine, mem) ==
  LET target == request.target_agent_name
      found  == get_agent(target)
      noted  == add_memory(mem, OrchestratorNote(HandoffNote(definition.name, target,
                                                             request.reason))) IN
  IF found.raised
    THEN [memory           |-> add_memory(noted, OrchestratorNote(HandoffError(target))),
          agent_definition |-> definition,
          agent_engine     |-> engine,
          continues        |-> FALSE]
    ELSE LET new_agent == CHOOSE d \in found.value : TRUE IN
         [memory           |-> noted,
          agent_definition |-> new_agent,
          agent_engine     |-> AgentEngine(engine.memory_manager, new_agent, engine.loop_count, engine.id + 1),
          continues        |-> TRUE]

\* the `if agent_change:` block: the try body on a registered target, the
\* except ValueError body on an unknown one
HandleHandoff(request, definition, engine, mem) ==
  LET target == request.target_agent_name
      found  == get_agent(target) IN
  IF found.raised
    THEN [memory           |-> add_memory(mem, OrchestratorNote(HandoffError(target))),
          agent_definition |-> definition,
          agent_engine     |-> engine,
          continues        |-> FALSE]
    ELSE LET new_agent == CHOOSE d \in found.value : TRUE IN
         [memory           |-> add_memory(mem,
                                 OrchestratorNote(HandoffNote(definition.name, target,
                                                              request.reason))),
          agent_definition |-> new_agent,
          agent_engine     |-> RebuildEngine(new_agent, engine),
          continues        |-> TRUE]

Complete_Rerun ==
  /\ pc = "returned"
  /\ result = None
  /\ pc' = "run_start"
  /\ UNCHANGED <<atHandoff, context, memory, agent_definition, agent_engine, current_input,
                 tool_calls, idx, result, nModelCalls, nToolCalls, batchStart, dispatched,
                 raisedBy>>
  /\ UNCHANGED outside_session

\* the run returned None: normal completion, break
Complete ==
  /\ pc = "returned"
  /\ result = None
  /\ pc' = "idle"
  /\ UNCHANGED <<atHandoff, context, memory, agent_definition, agent_engine, current_input, tool_calls,
                 idx, result, nModelCalls, nToolCalls, batchStart, dispatched, raisedBy>>
  /\ UNCHANGED outside_session

\* the run returned a handoff to a registered agent: swap and loop
AcceptHandoff ==
  /\ pc = "returned"
  /\ result # None
  /\ LET request == CHOOSE r \in result : TRUE
         out == HandleHandoff(request, agent_definition, agent_engine, memory) IN
       /\ out.continues
       /\ memory' = out.memory
       /\ agent_definition' = out.agent_definition
       /\ agent_engine' = out.agent_engine
  /\ current_input' = ContinuationInput
  /\ pc' = "run_start"
  /\ UNCHANGED <<atHandoff, context, tool_calls, idx, result, nModelCalls, nToolCalls, batchStart,
                 dispatched, raisedBy>>
  /\ UNCHANGED outside_session

\* the run returned a handoff to an unknown agent: error note, break
RejectHandoff ==
  /\ pc = "returned"
  /\ result # None
  /\ LET request == CHOOSE r \in result : TRUE
         out == HandleHandoff(request, agent_definition, agent_engine, memory) IN
       /\ ~out.continues
       /\ memory' = out.memory
       /\ agent_definition' = out.agent_definition
       /\ agent_engine' = out.agent_engine
  /\ pc' = "idle"
  /\ UNCHANGED <<atHandoff, context, current_input, tool_calls, idx, result, nModelCalls, nToolCalls,
                 batchStart, dispatched, raisedBy>>
  /\ UNCHANGED outside_session

\* an exception left run_loop: it leaves send_message_stream too and the
\* chat loop reports it
PropagateError ==
  /\ pc = "raised"
  /\ pc' = "idle"
  /\ UNCHANGED <<atHandoff, context, memory, agent_definition, agent_engine, current_input, tool_calls,
                 idx, result, nModelCalls, nToolCalls, batchStart, dispatched, raisedBy>>
  /\ UNCHANGED outside_session

Next ==
  \/ \E user_input \in UserInputs : SendMessage(user_input)
  \/ RunLoopEntry
  \/ CallModel
  \/ LoopExit
  \/ ModelFails
  \/ ModelAnswers
  \/ \E batch \in Batches(MaxToolCalls - nToolCalls) : ModelCallsTools(batch)
  \/ ArgumentsRaise
  \/ HandoffCall
  \/ DispatchTool
  \/ ToolDone
  \/ EndIteration
  \/ Complete
  \/ AcceptHandoff
  \/ RejectHandoff
  \/ PropagateError

Spec == Init /\ [][Next]_vars

\* ------------------------------------------- LocalJsonMemoryManager
MaxOps == 5

\* the value of an Optional that is set
TheOne(optional) == CHOOSE x \in optional : TRUE

\* a stored Message: the fields its creator sets, its timestamp, and the
\* session_id nobody sets
Stamped(message, timestamp) ==
  message @@ [timestamp |-> timestamp, session_id |-> None]

isoformat_Seconds(t) == <<ToString(t \div 2)>>

\* datetime.isoformat: the fraction is written only when it is not zero
isoformat(t) ==
  IF t % 2 = 0 THEN <<ToString(t \div 2)>>
  ELSE <<ToString(t \div 2), ".500000">>

\* datetime.fromisoformat: raises on anything that is not an ISO text
fromisoformat(text) ==
  LET seconds == IF Len(text) \in {1, 2}
                   THEN {n \in 0..MaxOps : ToString(n) = text[1]} ELSE {} IN
  IF seconds # {} /\ (Len(text) = 2 => text[2] = ".500000")
    THEN [raised |-> FALSE, value |-> 2 * TheOne(seconds) + (Len(text) - 1)]
    ELSE [raised |-> TRUE, value |-> 0]

\* Message.to_dict: role, content and the ISO timestamp always; agent_name,
\* tool_calls (dumped to plain data), tool_call_id and name when set;
\* session_id never
to_dict(m) ==
  LET keys == {"role", "content", "timestamp"} \cup
              {k \in {"agent_name", "tool_calls", "tool_call_id", "name"} : m[k] # None} IN
  [k \in keys |-> CASE k = "timestamp"          -> isoformat(m.timestamp)
                    [] k \in {"role", "content"} -> m[k]
                    [] OTHER                     -> TheOne(m[k])]

\* json.dump(data, f): the text of a JSON document holding data
json_dump(data) == <<"json", data>>

\* a file that is not a JSON document
Garbage == <<"not json">>

\* json.loads(memory_file.read_text())
json_loads_text(text) ==
  IF text[1] \in {"json", "json[]"} THEN [raised |-> FALSE, data |-> text[2]]
  ELSE [raised |-> TRUE, data |-> <<>>]

MessageFields ==
  {"role", "content", "timestamp", "tool_calls", "tool_call_id", "name",
   "session_id", "agent_name"}

\* Message(**item) raises TypeError on a missing required field or an
\* unknown key
ItemAccepted(item) ==
  /\ {"role", "content", "timestamp"} \subseteq DOMAIN item
  /\ DOMAIN item \subseteq MessageFields

\* the loop body of load_memory: the timestamp text parsed, or now when it
\* cannot be parsed; then Message(**item)
FromItem(item, t_now) ==
  LET parsed == fromisoformat(item["timestamp"])
      field(k) == IF k \in DOMAIN item THEN Some(item[k]) ELSE None IN
  [role         |-> item["role"],
   content      |-> item["content"],
   timestamp    |-> IF parsed.raised THEN t_now ELSE parsed.value,
   tool_calls   |-> field("tool_calls"),
   tool_call_id |-> field("tool_call_id"),
   name         |-> field("name"),
   session_id   |-> field("session_id"),
   agent_name   |-> field("agent_name")]

\* the messages load_memory appends before an item makes it stop
LoadItems(data, t_now) ==
  LET bad  == {i \in 1..Len(data) : ~ItemAccepted(data[i])}
      stop == IF bad = {} THEN Len(data) + 1
              ELSE CHOOSE i \in bad : \A j \in bad : i <= j IN
  [i \in 1..(stop - 1) |-> FromItem(data[i], t_now)]

\* load_memory: nothing when the file is missing or is not JSON; otherwise
\* the attribute short_term_memory (not _short_term_memory) is set to []
\* and every item is appended to _short_term_memory
load_memory(mem, attribute, file, t_now) ==
  IF file = None
    THEN [store |-> mem, short_term_memory |-> attribute]
    ELSE LET parsed == json_loads_text(TheOne(file)) IN
         IF parsed.raised
           THEN [store |-> mem, short_term_memory |-> attribute]
           ELSE [store |-> mem \o LoadItems(parsed.data, t_now),
                 short_term_memory |-> Some(<<>>)]

\* save_memory: the file holds the JSON list of to_dict of every message
save_memory(mem) == json_dump([i \in 1..Len(mem) |-> to_dict(mem[i])])

\* the messages a caller appends
AppendedMessages ==
  { AssistantMessage(<<>>,
       Some(<<[id |-> 1, function |-> [name |-> <<"core_sum">>, arguments |-> ArgsSum]]>>),
       AgentA),
    ToolMessage(<<"8">>, 1, <<"core_sum">>, AgentA) }

\* a snapshot somebody wrote by hand: its timestamp is not an ISO text
HandWritten ==
  json_dump(<<[role |-> "user", content |-> <<"old">>, timestamp |-> <<"yesterday">>]>>)

\* a snapshot cut short: its first item is a message, its second lacks
\* the content field Message requires
Truncated ==
  json_dump(<<[role |-> "user", content |-> <<"old">>, timestamp |-> <<"0">>],
              [role |-> "user", timestamp |-> <<"0">>]>>)

Logged(op, file) == Append(last, [op |-> op, file |-> file, before |-> store])

\* memory_manager.add_memory(Message(..., timestamp=datetime.now()))
AddMemory(message, elapsed) ==
  /\ nOps < MaxOps
  /\ now' = now + elapsed
  /\ store' = add_memory(store, Stamped(message, now'))
  /\ last' = Logged("add", "")
  /\ nOps' = nOps + 1
  /\ UNCHANGED <<short_term_memory, files>>
  /\ UNCHANGED outside_persistence

\* LocalJsonMemoryManager.clear_memory
ClearMemory ==
  /\ nOps < MaxOps
  /\ store' = <<>>
  /\ last' = Logged("clear", "")
  /\ nOps' = nOps + 1
  /\ UNCHANGED <<short_term_memory, files, now>>
  /\ UNCHANGED outside_persistence

\* ChatSession.clear_history: clear, then the system prompt is put back
ClearHistory(elapsed) ==
  /\ nOps < MaxOps
  /\ now' = now + elapsed
  /\ store' = IF agent_definition.system_prompt # <<>>
                THEN add_memory(<<>>,
                        Stamped(Message("system", agent_definition.system_prompt,
                                        None, None, None, None), now'))
                ELSE <<>>
  /\ last' = Logged("clear_history", "")
  /\ nOps' = nOps + 1
  /\ UNCHANGED <<short_term_memory, files>>
  /\ UNCHANGED outside_persistence

\* LocalJsonMemoryManager.load_memory(memory_file)
LoadMemory(memory_file) ==
  /\ nOps < MaxOps
  /\ LET loaded == load_memory(store, short_term_memory, files[memory_file], now) IN
       /\ store' = loaded.store
       /\ short_term_memory' = loaded.short_term_memory
  /\ last' = Logged("load", memory_file)
  /\ nOps' = nOps + 1
  /\ UNCHANGED <<files, now>>
  /\ UNCHANGED outside_persistence

\* LocalJsonMemoryManager.save_memory(memory_file)
SaveMemory(memory_file) ==
  /\ nOps < MaxOps
  /\ files' = [files EXCEPT ![memory_file] = Some(save_memory(store))]
  /\ last' = Logged("save", memory_file)
  /\ nOps' = nOps + 1
  /\ UNCHANGED <<store, short_term_memory, now>>
  /\ UNCHANGED outside_persistence

\* a new manager in a workspace where old.json already exists and
\* session.json, the name save_conversation uses by default, does not
MemInit ==
  /\ SessionStart
  /\ FreshManager
  /\ files \in [Files -> {None, Some(Garbage), Some(HandWritten)}]
  /\ files["session.json"] = None
  /\ files["old.json"] # None
  /\ ServerStart
  /\ socket_path = TRUE
  /\ DispatchStart
  /\ RegistryStart
  /\ BootStart

MemNext ==
  \/ \E message \in AppendedMessages, elapsed \in 0..1 : AddMemory(message, elapsed)
  \/ ClearMemory
  \/ \E elapsed \in 0..1 : ClearHistory(elapsed)
  \/ \E memory_file \in Files : LoadMemory(memory_file)
  \/ SaveMemory("session.json")

MemSpec == MemInit /\ [][MemNext]_vars


\* --------------------------------------------------- executor service
\* values a tool call can give: an int, a str, or a coroutine object
IntValue(n) == [int |-> n]

StrValue(text) == [str |-> text]

\* json.dumps raises TypeError on a value that is not JSON data
Serializable(value) == "coroutine" \notin DOMAIN value

\* base64.b64encode(data) + b"\n": one frame
b64encode(text) == <<"b64", text>>

\* base64.b64decode(frame)
b64decode(frame) == frame[2]

\* the dict {}
EmptyDict == [k \in {} |-> 0]

\* dict.get(key, default), as an Optional
Get(message, key) == IF key \in DOMAIN message THEN Some(message[key]) ELSE None

\* the capability table of the server: the core plugin's two tools and an
\* asynchronous tool of another plugin
ServerTools ==
  [t \in {<<"core_bash">>, <<"core_sum">>, <<"plugin_async_sum">>} |->
     [is_async |-> t = <<"plugin_async_sum">>]]

\* the body of a tool called as tool_func(**tool_args): sum(a, b) returns
\* a + b, core_bash_tool(command) returns command; a missing or unexpected
\* keyword raises TypeError
CallTool(tool_name, tool_args) ==
  IF tool_name = <<"core_bash">>
    THEN IF DOMAIN tool_args = {"command"}
           THEN [raised |-> FALSE, value |-> StrValue(tool_args["command"])]
           ELSE [raised |-> TRUE, value |-> StrValue(<<"TypeError: arguments">>)]
    ELSE IF DOMAIN tool_args = {"a", "b"}
           THEN [raised |-> FALSE, value |-> IntValue(tool_args["a"] + tool_args["b"])]
           ELSE [raised |-> TRUE, value |-> StrValue(<<"TypeError: arguments">>)]

\* tool_func(**tool_args) of a coroutine function: a coroutine object
\* that holds what the body will return or raise
Coroutine(tool_name, tool_args) ==
  [coroutine |-> "object", outcome |-> CallTool(tool_name, tool_args)]

\* asyncio.run(coroutine): runs it to completion
asyncio_run(coroutine) == coroutine.outcome

RunTool_NoAwait(tool_name, tool_args) ==
  IF ServerTools[tool_name].is_async
    THEN [raised |-> FALSE, value |-> Coroutine(tool_name, tool_args)]
    ELSE CallTool(tool_name, tool_args)

\* the tool call of the execute branch: asyncio.run(tool_func(**tool_args))
\* for a coroutine function, tool_func(**tool_args) otherwise
RunTool(tool_name, tool_args) ==
  IF ServerTools[tool_name].is_async
    THEN asyncio_run(Coroutine(tool_name, tool_args))
    ELSE CallTool(tool_name, tool_args)

Response(status, message) == [status |-> status, message |-> message]

CommandOf_DefaultPing(message) ==
  IF "command" \in DOMAIN message THEN message["command"] ELSE "ping"

CommandOf_Alone(message) ==
  IF DOMAIN message = {"id", "command"} THEN message["command"] ELSE "unknown"

\* message.get("command", "unknown")
CommandOf(message) ==
  IF "command" \in DOMAIN message THEN message["command"] ELSE "unknown"

\* _process_message up to the tool call: a response, an exception that
\* leaves _process_message, or the tool to run
ProcessMessage(message) ==
  LET command == CommandOf(message) IN
  IF command = "ping"
    THEN [kind |-> "response", response |-> Response("success", StrValue(<<"pong">>))]
  ELSE IF command = "list_tools"
    THEN [kind |-> "raise",
          error |-> <<"'ToolPluginRegistry' object has no attribute 'get_tool_list'">>]
  ELSE IF command = "execute"
    THEN LET tool_name == Get(message, "tool_name") IN
         IF tool_name = None \/ tool_name = Some(<<>>)
           THEN [kind |-> "response",
                 response |-> Response("error", StrValue(<<"Tool name is required">>))]
         ELSE IF TheOne(tool_name) \notin DOMAIN ServerTools
           THEN [kind |-> "response",
                 response |-> Response("error",
                    StrValue(<<"Tool ">> \o TheOne(tool_name) \o <<" not found">>))]
         ELSE [kind |-> "tool", tool_name |-> TheOne(tool_name),
               tool_args |-> IF "tool_args" \in DOMAIN message
                               THEN message["tool_args"] ELSE EmptyDict]
  ELSE [kind |-> "response",
        response |-> Response("error",
                        StrValue(<<"The command is invalid; please try again">>))]

\* the end of the execute branch: the result wrapped as success, or the
\* exception caught and its text wrapped as error
ToolResponse(tool_name, tool_args) ==
  LET outcome == RunTool(tool_name, tool_args) IN
  IF outcome.raised THEN Response("error", outcome.value)
  ELSE Response("success", outcome.value)

\* the except branch of _handle_client: {"status": "error", "message": str(e)}
ErrorResponse(error) == Response("error", StrValue(error))

\* what clients send: the client module's three commands, and requests
\* that break the protocol
Requests ==
  { [command |-> "ping"],
    [command |-> "list_tools"],
    [command |-> "execute", tool_name |-> <<"core_sum">>, tool_args |-> [a |-> 3, b |-> 5]],
    [command |-> "execute", tool_name |-> <<"plugin_async_sum">>,
     tool_args |-> [a |-> 3, b |-> 5]],
    [command |-> "execute", tool_name |-> <<"core_sum">>, tool_args |-> [a |-> 3]],
    [command |-> "execute", tool_name |-> <<"nope">>, tool_args |-> EmptyDict],
    [command |-> "execute", tool_args |-> [a |-> 3, b |-> 5]],
    [command |-> "shutdown"],
    [tool_name |-> <<"core_sum">>] }

\* a request as the client module frames it
FrameOf(message) == b64encode(json_dump(message))

\* a frame that is not base64: b64decode raises binascii.Error
NotBase64 == <<"raw", <<"abc">>>>

\* the text of a JSON document that holds a list, not an object
ListText == <<"json[]", <<"ping">>>>

\* what a client writes on its connection: one framed request; base64 of
\* something that is not JSON; or two framed requests
FramesOf ==
  { <<FrameOf(message)>> : message \in Requests }
    \cup { <<b64encode(Garbage)>> }
    \cup { <<FrameOf([command |-> "ping"]),
             FrameOf([command |-> "execute", tool_name |-> <<"core_sum">>,
                      tool_args |-> [a |-> 3, b |-> 5]])>> }

\* the handler of connection c is at pc
At(c, pc_) == thread[c].pc = pc_

\* the response frames the client of c has been sent, decoded as the
\* client module decodes them
ReceivedBy(c) ==
  [i \in 1..Len(client_socket[c].outbound) |->
     json_loads_text(b64decode(client_socket[c].outbound[i])).data]

\* run(): is_running = True, the accept loop starts
Run ==
  /\ ~is_running
  /\ is_running' = TRUE
  /\ UNCHANGED <<client_socket, thread, requests, socket_path, client_result>>
  /\ UNCHANGED outside_server

\* a ping that carries an id of its own and another field
PingWithFields == [command |-> "ping", id |-> <<"mine">>, extra |-> <<"x">>]

\* clients that write their frames and wait for the answer
ClientCalls == { [frames |-> frames, stays |-> TRUE] : frames \in FramesOf }

\* clients that break the framing or do not wait: a frame that is not
\* base64, base64 of something that is not JSON or of a JSON list, and a
\* frame written by a client that closes its end at once; beside them,
\* clients that keep to the protocol
FramingCalls ==
  { [frames |-> <<frame>>, stays |-> TRUE] :
      frame \in { NotBase64, b64encode(Garbage), b64encode(ListText),
                  FrameOf([command |-> "ping"]), FrameOf(PingWithFields),
                  FrameOf([command |-> "execute", tool_name |-> <<"core_sum">>,
                           tool_args |-> [a |-> 3, b |-> 5]]) } }
    \cup { [frames |-> <<frame>>, stays |-> FALSE] :
              frame \in { FrameOf([command |-> "ping"]), b64encode(Garbage) } }

\* client call c has not been made yet, and the calls before it have
Unused(c) ==
  /\ client_socket[c].state = "unused"
  /\ client_result[c] = None
  /\ \A d \in Conns :
        d < c => (client_socket[d].state # "unused" \/ client_result[d] # None)

\* a client connects and sends its frame (send_message, lines 23-28), or
\* two frames when it does not keep to one request per connection
ClientConnects(c, call) ==
  /\ socket_path
  /\ Unused(c)
  /\ client_socket' = [client_socket EXCEPT ![c] =
        [state |-> "connected", inbound |-> call.frames, outbound |-> <<>>,
         after_error |-> \E d \in Conns :
                            /\ client_socket[d].state = "closed"
                            /\ Len(ReceivedBy(d)) = 1
                            /\ ReceivedBy(d)[1].status = "error",
         peer |-> IF call.stays THEN "open" ELSE "gone"]]
  /\ requests' = [requests EXCEPT ![c] = call.frames]
  /\ UNCHANGED <<is_running, thread, socket_path, client_result>>
  /\ UNCHANGED outside_server

\* what send_message returns when the socket path does not exist
NotAvailable ==
  Response("error", StrValue(<<"The socket was not found. The executor is not available">>))

ClientUnavailable_Connects(c, message) ==
  /\ ~socket_path
  /\ Unused(c)
  /\ client_socket' = [client_socket EXCEPT ![c].state = "connected",
                                            ![c].inbound = <<FrameOf(message)>>]
  /\ requests' = [requests EXCEPT ![c] = <<FrameOf(message)>>]
  /\ client_result' = [client_result EXCEPT ![c] = Some(NotAvailable)]
  /\ UNCHANGED <<is_running, thread, socket_path>>
  /\ UNCHANGED outside_server

\* send_message(message) when the socket path does not exist (lines
\* 13-17): the error result is returned before any socket is created
ClientUnavailable(c, message) ==
  /\ ~socket_path
  /\ Unused(c)
  /\ client_result' = [client_result EXCEPT ![c] = Some(NotAvailable)]
  /\ UNCHANGED <<is_running, client_socket, thread, requests, socket_path>>
  /\ UNCHANGED outside_server

\* the accept loop may take a pending connection
CanAccept(c) == is_running /\ client_socket[c].state = "connected"

\* run(): accept, and a daemon thread started on _handle_client
Accept(c) ==
  /\ CanAccept(c)
  /\ client_socket' = [client_socket EXCEPT ![c].state = "accepted"]
  /\ thread' = [thread EXCEPT ![c].pc = "recv"]
  /\ UNCHANGED <<is_running, requests, socket_path, client_result>>
  /\ UNCHANGED outside_server

\* lines 120-124 on one frame: base64.b64decode, json.loads, and
\* message["id"] = message_id, which raises TypeError on a list
ParseFrame(frame) ==
  IF frame[1] # "b64"
    THEN [raised |-> TRUE, error |-> <<"Incorrect padding">>, data |-> EmptyDict]
  ELSE LET parsed == json_loads_text(b64decode(frame)) IN
       IF parsed.raised
         THEN [raised |-> TRUE, error |-> <<"JSONDecodeError">>, data |-> EmptyDict]
       ELSE IF b64decode(frame)[1] = "json[]"
         THEN [raised |-> TRUE, data |-> EmptyDict,
               error |-> <<"list indices must be integers or slices, not str">>]
       ELSE [raised |-> FALSE, error |-> <<>>, data |-> parsed.data]

\* the recv loop ended on a chunk with a newline: the chunk holds the
\* first n frames the client wrote. It is decoded and parsed, and the
\* handler's id is stored in the message. A chunk of two frames decodes to
\* the first message or to nothing, by the padding of the first frame.
Receive(c, n, lenient) ==
  /\ At(c, "recv")
  /\ n \in 1..Len(client_socket[c].inbound)
  /\ LET parsed == ParseFrame(client_socket[c].inbound[1]) IN
       thread' = [thread EXCEPT ![c] =
          IF ~parsed.raised /\ (n = 1 \/ lenient)
            THEN [@ EXCEPT !.pc = "process",
                           !.message = Some([id |-> c] @@ parsed.data)]
          ELSE IF parsed.raised
            THEN [@ EXCEPT !.pc = "failed", !.error = parsed.error]
            ELSE [@ EXCEPT !.pc = "failed", !.error = <<"JSONDecodeError">>]]
  /\ client_socket' = [client_socket EXCEPT ![c].inbound =
        SubSeq(@, n + 1, Len(@))]
  /\ UNCHANGED <<is_running, requests, socket_path, client_result>>
  /\ UNCHANGED outside_server

LocalMessage_Shared(c, threads) ==
  LET others == {d \in Conns : d # c /\ threads[d].message # None} IN
  IF others = {} THEN TheOne(threads[c].message)
  ELSE TheOne(threads[CHOOSE d \in others : TRUE].message)

\* the local variable message of the handler of c
LocalMessage(c, threads) == TheOne(threads[c].message)

\* _process_message(message) until it returns, raises, or enters the tool
Process(c) ==
  /\ At(c, "process")
  /\ LET outcome == ProcessMessage(LocalMessage(c, thread)) IN
       thread' = [thread EXCEPT ![c] =
          CASE outcome.kind = "response" ->
                 [@ EXCEPT !.pc = "send", !.response = Some(outcome.response)]
            [] outcome.kind = "raise" ->
                 [@ EXCEPT !.pc = "failed", !.error = outcome.error]
            [] outcome.kind = "tool" ->
                 [@ EXCEPT !.pc = "in_tool",
                           !.call = Some([tool_name |-> outcome.tool_name,
                                          tool_args |-> outcome.tool_args])]]
  /\ UNCHANGED <<is_running, client_socket, requests, socket_path, client_result>>
  /\ UNCHANGED outside_server

\* the tool returns or raises, however long it took
ToolReturns(c) ==
  /\ At(c, "in_tool")
  /\ LET call == TheOne(thread[c].call) IN
       thread' = [thread EXCEPT ![c] =
          [@ EXCEPT !.pc = "send",
                    !.response = Some(ToolResponse(call.tool_name, call.tool_args))]]
  /\ UNCHANGED <<is_running, client_socket, requests, socket_path, client_result>>
  /\ UNCHANGED outside_server

\* sendall(frame), then the finally clause: client_socket.close()
SentAndClosed(socket, response) ==
  [socket EXCEPT !.outbound = Append(@, b64encode(json_dump(response))),
                 !.state = "closed"]

Send_KeepAlive(c) ==
  /\ At(c, "send")
  /\ client_socket' = [client_socket EXCEPT ![c].outbound =
        Append(@, b64encode(json_dump(TheOne(thread[c].response))))]
  /\ thread' = [thread EXCEPT ![c].pc = "recv"]
  /\ UNCHANGED <<is_running, requests, socket_path, client_result>>
  /\ UNCHANGED outside_server

\* the client's end of connection c is still open: sendall can write
Writable(c) == client_socket[c].peer = "open"

\* the client reads the frame and send_message returns it decoded
Returned(c, response) ==
  [client_result EXCEPT ![c] = Some(json_loads_text(json_dump(response)).data)]

\* json.dumps(response), base64, sendall, and the handler ends; TypeError
\* when the response cannot be dumped, BrokenPipeError when the client
\* has closed its end
Send(c) ==
  /\ At(c, "send")
  /\ IF ~Serializable(TheOne(thread[c].response).message)
       THEN /\ thread' = [thread EXCEPT ![c].pc = "failed",
                                        ![c].error = <<"TypeError: not JSON serializable">>]
            /\ UNCHANGED <<client_socket, client_result>>
     ELSE IF ~Writable(c)
       THEN /\ thread' = [thread EXCEPT ![c].pc = "failed",
                                        ![c].error = <<"[Errno 32] Broken pipe">>]
            /\ UNCHANGED <<client_socket, client_result>>
     ELSE /\ client_socket' = [client_socket EXCEPT ![c] =
                SentAndClosed(@, TheOne(thread[c].response))]
          /\ client_result' = Returned(c, TheOne(thread[c].response))
          /\ thread' = [thread EXCEPT ![c].pc = "done"]
  /\ UNCHANGED <<is_running, requests, socket_path>>
  /\ UNCHANGED outside_server

SendError_Swallowed(c) ==
  /\ At(c, "failed")
  /\ client_socket' = [client_socket EXCEPT ![c].state = "closed"]
  /\ thread' = [thread EXCEPT ![c].pc = "done"]
  /\ UNCHANGED <<is_running, requests, socket_path, client_result>>
  /\ UNCHANGED outside_server

\* except Exception: the error response is sent, or the send fails and is
\* logged; in both cases the finally clause closes the connection and the
\* handler ends
SendError(c) ==
  /\ At(c, "failed")
  /\ IF Writable(c)
       THEN /\ client_socket' = [client_socket EXCEPT ![c] =
                  SentAndClosed(@, ErrorResponse(thread[c].error))]
            /\ client_result' = Returned(c, ErrorResponse(thread[c].error))
       ELSE /\ client_socket' = [client_socket EXCEPT ![c].state = "closed"]
            /\ UNCHANGED client_result
  /\ thread' = [thread EXCEPT ![c].pc = "done"]
  /\ UNCHANGED <<is_running, requests, socket_path>>
  /\ UNCHANGED outside_server

\* the service constructed: _socket_setup bound the socket, or __init__
\* failed before the bind and _clean_server left no socket file
ExecInit ==
  /\ SessionStart
  /\ FreshManager
  /\ files = [f \in Files |-> None]
  /\ ServerStart
  /\ socket_path \in BOOLEAN
  /\ DispatchStart
  /\ RegistryStart
  /\ server_socket = (IF socket_path THEN "listening" ELSE "none")
  /\ logged = 0

ExecNext ==
  \/ Run
  \/ \E c \in Conns, call \in ClientCalls : ClientConnects(c, call)
  \/ \E c \in Conns, message \in Requests : ClientUnavailable(c, message)
  \/ \E c \in Conns : Accept(c)
  \/ \E c \in Conns, n \in 1..2, lenient \in BOOLEAN : Receive(c, n, lenient)
  \/ \E c \in Conns : Process(c)
  \/ \E c \in Conns : ToolReturns(c)
  \/ \E c \in Conns : Send(c)
  \/ \E c \in Conns : SendError(c)

ExecSpec == ExecInit /\ [][ExecNext]_vars

\* the service, its socket bound, with clients that break the framing or
\* hang up
FramingInit ==
  /\ SessionStart
  /\ FreshManager
  /\ files = [f \in Files |-> None]
  /\ ServerStart
  /\ socket_path = TRUE
  /\ DispatchStart
  /\ RegistryStart
  /\ BootStart

FramingNext ==
  \/ Run
  \/ \E c \in Conns, call \in FramingCalls : ClientConnects(c, call)
  \/ \E c \in Conns : Accept(c)
  \/ \E c \in Conns : Receive(c, 1, FALSE)
  \/ \E c \in Conns : Process(c)
  \/ \E c \in Conns : ToolReturns(c)
  \/ \E c \in Conns : Send(c)
  \/ \E c \in Conns : SendError(c)

FramingSpec == FramingInit /\ [][FramingNext]_vars

\* ------------------------------------------------------- the tool drivers
MaxCalls == 2

\* the capability table of the dispatcher: three cli tools (one renders a
\* command, one returns a list, one raises), two native tools (one
\* returns, one raises) and a tool declared with a type of its own
Capabilities ==
  [t \in {<<"echo">>, <<"cli_list">>, <<"cli_boom">>, <<"core_sum">>, <<"boom">>,
          <<"odd">>} |->
     [tool_name |-> t,
      tool_type |-> CASE t \in {<<"echo">>, <<"cli_list">>, <<"cli_boom">>} -> "cli"
                      [] t = <<"odd">> -> "shell"
                      [] OTHER -> "python"]]

\* tool_function(**tool_args): what the function returns or raises
TheFunction(tool_name, tool_args) ==
  IF tool_name = <<"core_sum">>
    THEN IF DOMAIN tool_args = {"a", "b"}
           THEN [raised |-> FALSE, is_str |-> FALSE,
                 text |-> <<ToString(tool_args["a"] + tool_args["b"])>>]
           ELSE [raised |-> TRUE, is_str |-> FALSE,
                 text |-> <<"sum() missing 2 required positional arguments">>]
  ELSE IF DOMAIN tool_args # {}
    THEN [raised |-> TRUE, is_str |-> FALSE,
          text |-> <<"got an unexpected keyword argument">>]
  ELSE IF tool_name \in {<<"boom">>, <<"cli_boom">>}
    THEN [raised |-> TRUE, is_str |-> FALSE, text |-> <<"boom">>]
  ELSE IF tool_name = <<"cli_list">>
    THEN [raised |-> FALSE, is_str |-> FALSE, text |-> <<"['ls', '-l']">>]
  ELSE [raised |-> FALSE, is_str |-> TRUE, text |-> <<"echo out; echo warn >&2">>]

\* what a process wrote on a stream: its text, and the newline that ends it
Written(body) == [body |-> body, newline |-> body # <<>>]

\* bytes.decode().strip()
strip(output) == output.body

\* the child process of create_subprocess_shell: it could not be started,
\* or it ran and left an exit code and its two streams
ProcOutcomes ==
  { [started |-> FALSE, returncode |-> 0, stdout |-> Written(<<>>), stderr |-> Written(<<>>)] }
    \cup { [started |-> TRUE, returncode |-> code, stdout |-> Written(out),
            stderr |-> Written(err)] :
             code \in {0, 1}, out \in {<<>>, <<"out">>}, err \in {<<>>, <<"warn">>} }

NoProc == [started |-> FALSE, returncode |-> 0, stdout |-> Written(<<>>), stderr |-> Written(<<>>)]

\* f"Failed to execute tool: {str(e)}"
Failed(e) == <<"Failed to execute tool: ">> \o e

LocalExecutorDriver_execute_NoExcept(tool, tool_args, proc) ==
  LET called == TheFunction(tool.tool_name, tool_args) IN
  IF tool.tool_type = "cli"
    THEN IF called.raised THEN [raised |-> TRUE, text |-> called.text]
         ELSE IF ~called.is_str
           THEN [raised |-> TRUE, text |-> <<"CLI tool must return a string command">>]
         ELSE IF ~proc.started
           THEN [raised |-> TRUE, text |-> <<"[Errno 11] Resource temporarily unavailable">>]
         ELSE IF proc.returncode # 0
           THEN [raised |-> FALSE, text |-> <<"Error: ">> \o strip(proc.stderr)]
         ELSE [raised |-> FALSE, text |-> strip(proc.stdout)]
  ELSE IF tool.tool_type = "python"
    THEN called
  ELSE [raised |-> FALSE, text |-> <<"Error: Unsupported tool type '", tool.tool_type, "'">>]

\* LocalExecutorDriver.execute: the cli branch runs the rendered command
\* as a child process, the python branch calls the function; the except
\* clause turns whatever was raised into a string
LocalExecutorDriver_execute(tool, tool_args, proc) ==
  LET called == TheFunction(tool.tool_name, tool_args) IN
  IF tool.tool_type = "cli"
    THEN IF called.raised THEN [raised |-> FALSE, text |-> Failed(called.text)]
         ELSE IF ~called.is_str
           THEN [raised |-> FALSE,
                 text |-> Failed(<<"CLI tool must return a string command, got ",
                                   "<class 'list'>">>)]
         ELSE IF ~proc.started
           THEN [raised |-> FALSE,
                 text |-> Failed(<<"[Errno 11] Resource temporarily unavailable">>)]
         ELSE IF proc.returncode # 0
           THEN [raised |-> FALSE, text |-> <<"Error: ">> \o strip(proc.stderr)]
         ELSE [raised |-> FALSE, text |-> strip(proc.stdout)]
  ELSE IF tool.tool_type = "python"
    THEN IF called.raised THEN [raised |-> FALSE, text |-> Failed(called.text)]
         ELSE [raised |-> FALSE, text |-> called.text]
  ELSE [raised |-> FALSE, text |-> <<"Error: Unsupported tool type '", tool.tool_type, "'">>]

\* print(command_result) of the companion process: the repr of the dict,
\* which is not a JSON document
PyRepr(reply) == <<"repr", reply>>

\* str(value) of a response's message
StrOf(value) == IF "int" \in DOMAIN value THEN <<ToString(value.int)>> ELSE value.str

\* what the executor client of the companion process can return
Replies ==
  { Response("success", IntValue(8)),
    Response("error", StrValue(<<"Tool ", "nope", " not found">>)),
    NotAvailable }

\* the container side of a call: whether the container can be reached,
\* and what exec_run gives back, the two streams in one
CliEnvs ==
  { [container |-> k, output |-> Written(out)] :
      k \in {"running", "unreachable"}, out \in {<<>>, <<"out", "\n", "warn">>} }

NativeEnvs ==
  { [container |-> k, output |-> Written(PyRepr(reply))] :
      k \in {"running", "unreachable"}, reply \in Replies }

\* lines 72-86: the output parsed as JSON, or returned as it is
ParseReply(output) ==
  LET parsed == IF output = <<>> THEN [raised |-> TRUE, data |-> <<>>]
                ELSE json_loads_text(output) IN
  IF parsed.raised THEN output
  ELSE IF Get(parsed.data, "status") = Some("success")
    THEN StrOf(parsed.data["message"])
  ELSE <<"Error: ">> \o StrOf(parsed.data["message"])

\* DockerExecutorDriver.execute: a cli tool's command is run in the
\* container; a python tool is run by exodus-server-exec in the container
\* and its printed reply is parsed; _get_or_create_container returns a str
\* when the container cannot be reached, and using it raises
DockerExecutorDriver_execute(tool, tool_args, env) ==
  IF tool.tool_type = "cli"
    THEN LET called == TheFunction(tool.tool_name, tool_args) IN
         IF called.raised THEN [raised |-> FALSE, text |-> Failed(called.text)]
         ELSE IF ~called.is_str
           THEN [raised |-> FALSE,
                 text |-> Failed(<<"CLI tool must return a string command, got ",
                                   "<class 'list'>">>)]
         ELSE IF env.container = "unreachable"
           THEN [raised |-> FALSE,
                 text |-> Failed(<<"'str' object has no attribute 'name'">>)]
         ELSE [raised |-> FALSE, text |-> strip(env.output)]
  ELSE IF tool.tool_type = "python"
    THEN IF env.container = "unreachable"
           THEN [raised |-> FALSE,
                 text |-> Failed(<<"'str' object has no attribute 'exec_run'">>)]
           ELSE [raised |-> FALSE, text |-> ParseReply(strip(env.output))]
  ELSE [raised |-> FALSE, text |-> <<"Unsupported tool type: ", tool.tool_type>>]

ToolExecutor_execute_Lenient(mode, tool_name, tool_args, env) ==
  [raised |-> FALSE, driver_invoked |-> TRUE,
   text |-> Failed(<<"Tool ">> \o tool_name \o <<" not found">>)]

\* ToolExecutor.execute: the lookup, then the driver; whatever is raised
\* inside the try is raised again as a ValueError
ToolExecutor_execute(mode, tool_name, tool_args, env) ==
  IF tool_name \notin DOMAIN Capabilities
    THEN [raised |-> TRUE, driver_invoked |-> FALSE,
          text |-> <<"Failed to execute tool ">> \o tool_name \o <<": ">>
                     \o <<"Tool ">> \o tool_name \o <<" not found">>]
  ELSE LET tool == Capabilities[tool_name]
           given == IF mode = "docker"
                      THEN DockerExecutorDriver_execute(tool, tool_args, env)
                      ELSE LocalExecutorDriver_execute(tool, tool_args, env) IN
       [raised |-> given.raised, driver_invoked |-> TRUE,
        text |-> IF given.raised
                   THEN <<"Failed to execute tool ">> \o tool_name \o <<": ">> \o given.text
                   ELSE given.text]

\* the names and arguments execute is called with
ToolNames == DOMAIN Capabilities \cup {<<"nope">>}

ToolArgs == {EmptyDict, [a |-> 3, b |-> 5]}

TypeOf(tool_name) ==
  IF tool_name \in DOMAIN Capabilities THEN Capabilities[tool_name].tool_type ELSE "none"

\* one call of ToolExecutor.execute
Executed(tool_name, tool_args, env) ==
  Append(executed,
         [tool_name |-> tool_name, tool_args |-> tool_args, env |-> env,
          outcome |-> ToolExecutor_execute(execution_mode, tool_name, tool_args, env)])

\* execute with the in-process driver
ExecuteLocal(tool_name, tool_args, proc) ==
  /\ execution_mode = "local"
  /\ Len(executed) < MaxCalls
  /\ TypeOf(tool_name) = "cli" \/ proc = NoProc
  /\ executed' = Executed(tool_name, tool_args, proc)
  /\ UNCHANGED execution_mode
  /\ UNCHANGED outside_dispatch

\* execute with the isolated driver
ExecuteDocker(tool_name, tool_args, env) ==
  /\ execution_mode = "docker"
  /\ Len(executed) < MaxCalls
  /\ CASE TypeOf(tool_name) = "cli"    -> env \in CliEnvs
       [] TypeOf(tool_name) = "python" -> env \in NativeEnvs
       [] OTHER -> env = [container |-> "running", output |-> Written(<<>>)]
  /\ executed' = Executed(tool_name, tool_args, env)
  /\ UNCHANGED execution_mode
  /\ UNCHANGED outside_dispatch

\* ToolExecutor.__init__: the driver chosen by agent.execution_mode
ToolInit ==
  /\ SessionStart
  /\ FreshManager
  /\ files = [f \in Files |-> None]
  /\ ServerStart
  /\ socket_path = TRUE
  /\ execution_mode \in {"local", "docker"}
  /\ executed = <<>>
  /\ RegistryStart
  /\ BootStart

ToolNext ==
  \/ \E tool_name \in ToolNames, tool_args \in ToolArgs, proc \in ProcOutcomes :
        ExecuteLocal(tool_name, tool_args, proc)
  \/ \E tool_name \in ToolNames, tool_args \in ToolArgs,
        env \in CliEnvs \cup NativeEnvs :
        ExecuteDocker(tool_name, tool_args, env)

ToolSpec == ToolInit /\ [][ToolNext]_vars

\* ------------------------------------------- the agent registry, engines
MaxRegistrations == 3

MaxLookups == 1

\* the definitions passed to register_agent: two under each of two names.
\* "ghost" is not in the capability table, "plain" is in it without an
\* openai_tool_def, and no agent is ever registered as Z
Definitions ==
  { [name |-> AgentA, description |-> <<"first A">>,
     tools |-> <<<<"core_sum">>, <<"ghost">>>>, handoffs |-> <<AgentB, AgentZ>>],
    [name |-> AgentA, description |-> <<"second A">>,
     tools |-> <<<<"core_sum">>>>, handoffs |-> <<AgentB>>],
    [name |-> AgentB, description |-> <<>>,
     tools |-> <<<<"plain">>, <<"core_sum">>>>, handoffs |-> <<AgentA>>],
    [name |-> AgentB, description |-> <<"second B">>,
     tools |-> <<>>, handoffs |-> <<>>] }

\* k in d
dict_has(d, k) == \E i \in 1..Len(d) : d[i].key = k

\* d[k]
dict_get(d, k) == d[CHOOSE i \in 1..Len(d) : d[i].key = k /\ \A j \in 1..(i - 1) : d[j].key # k].value

dict_set_Append(d, k, v) == Append(d, [key |-> k, value |-> v])

\* d[k] = v: the value under k is replaced, or a new item is added
dict_set(d, k, v) ==
  IF dict_has(d, k)
    THEN [i \in 1..Len(d) |-> IF d[i].key = k THEN [key |-> k, value |-> v] ELSE d[i]]
    ELSE Append(d, [key |-> k, value |-> v])

\* AgentRegistry.register_agent
register_agent(d, definition) == dict_set(d, definition.name, definition)

\* AgentRegistry.get_agent on the dict d: the definition or the
\* ValueError, and the dict it leaves
registry_get_agent(d, agent_name) ==
  IF ~dict_has(d, agent_name)
    THEN [raised |-> TRUE, value |-> None, agents |-> d,
          text |-> <<"Agent ">> \o agent_name \o <<" not found">>]
    ELSE [raised |-> FALSE, value |-> Some(dict_get(d, agent_name)), agents |-> d,
          text |-> <<>>]

\* the capability table the engine reads: name -> whether the function
\* carries an openai_tool_def
SchemaTools ==
  [t \in {<<"core_sum">>, <<"plain">>} |-> [has_def |-> t = <<"core_sum">>]]

\* tool_func.openai_tool_def
openai_tool_def(tool_name) ==
  [type |-> "function", name |-> tool_name, properties |-> {"a", "b"},
   required |-> {"a", "b"}]

\* the handoff tool of lines 57-72
handoff_tool(target_agent_name) ==
  [type |-> "function", name |-> <<TransferPrefix>> \o target_agent_name,
   properties |-> {"reason"}, required |-> {"reason"}]

\* the declared tool gets a schema entry
HasSchema(tool_name) == tool_name \in DOMAIN SchemaTools /\ SchemaTools[tool_name].has_def

\* AgentEngine._build_tools_schema
build_tools_schema(definition) ==
  LET kept == SelectSeq(definition.tools, HasSchema) IN
  [i \in 1..Len(kept) |-> openai_tool_def(kept[i])]

build_handoff_tools_All(definition, d) ==
  [i \in 1..Len(definition.handoffs) |-> handoff_tool(definition.handoffs[i])]

\* AgentEngine._build_handoff_tools, reading the registry d
build_handoff_tools(definition, d) ==
  LET Known(target_agent_name) == ~registry_get_agent(d, target_agent_name).raised
      kept == SelectSeq(definition.handoffs, Known) IN
  [i \in 1..Len(kept) |-> handoff_tool(kept[i])]

\* AgentEngine.__init__: all_tools_schema
all_tools_schema(definition, d) ==
  build_tools_schema(definition) \o build_handoff_tools(definition, d)

\* register_agent(definition)
RegisterAgent(definition) ==
  /\ Len(registered) < MaxRegistrations
  /\ agents' = register_agent(agents, definition)
  /\ registered' = Append(registered, definition)
  /\ UNCHANGED <<got, built>>
  /\ UNCHANGED outside_registry

\* get_agent(agent_name), by any caller
GetAgent(agent_name) ==
  /\ Len(got) < MaxLookups
  /\ LET found == registry_get_agent(agents, agent_name) IN
       /\ agents' = found.agents
       /\ got' = Append(got, [agent_name |-> agent_name, before |-> agents,
                              history |-> registered, result |-> found])
  /\ UNCHANGED <<registered, built>>
  /\ UNCHANGED outside_registry

\* an AgentEngine is constructed for a registered agent
BuildEngine(agent_name) ==
  /\ dict_has(agents, agent_name)
  /\ LET definition == dict_get(agents, agent_name) IN
       built' = Some([agent_definition |-> definition,
                      all_tools_schema |-> all_tools_schema(definition, agents),
                      registry_then |-> agents,
                      passed |-> None])
  /\ UNCHANGED <<agents, registered, got>>
  /\ UNCHANGED outside_registry

\* run_loop's model call: generate(context, tools_schema=self.all_tools_schema)
Generate ==
  /\ built # None
  /\ built' = Some([TheOne(built) EXCEPT !.passed = Some(TheOne(built).all_tools_schema)])
  /\ UNCHANGED <<agents, registered, got>>
  /\ UNCHANGED outside_registry

RegistryInit ==
  /\ SessionStart
  /\ FreshManager
  /\ files = [f \in Files |-> None]
  /\ ServerStart
  /\ socket_path = TRUE
  /\ DispatchStart
  /\ RegistryStart
  /\ BootStart

RegistryNext ==
  \/ \E definition \in Definitions : RegisterAgent(definition)
  \/ \E agent_name \in {AgentA, AgentB, AgentZ} : GetAgent(agent_name)
  \/ \E agent_name \in {AgentA, AgentB} : BuildEngine(agent_name)
  \/ Generate

RegistrySpec == RegistryInit /\ [][RegistryNext]_vars

\* ------------------------------------------------------------- helpers
IsPrefix(s, t) == Len(s) <= Len(t) /\ SubSeq(t, 1, Len(s)) = s

\* the calls of the assistant message at index p of the context
CallsAt(p) == IF memory[p].tool_calls = None THEN <<>>
              ELSE CHOOSE c \in memory[p].tool_calls : TRUE

IsHandoffCall(c) == IsHandoffName(c.function.name)
BadArguments(c)  == json_loads(c.function.arguments).raised

\* the tool-role message at index j answers call c
Answers(j, c) ==
  /\ j <= Len(memory)
  /\ memory[j].role = "tool"
  /\ memory[j].tool_call_id = Some(c.id)
  /\ memory[j].name = Some(c.function.name)

\* the messages after index p are the results of the first n calls, in order
ResultsFollow(p, calls, n) == \A i \in 1..n : Answers(p + i, calls[i])

\* no tool-role message follows the n results of the batch at index p
NothingMore(p, n) == p + n = Len(memory) \/ memory[p + n + 1].role # "tool"

\* the run that handled the batch at batchStart has ended and nothing was
\* appended by another run since
LastBatchEnded ==
  /\ pc \in {"returned", "raised"}
  /\ batchStart > 0
  /\ \A j \in (batchStart + 1)..Len(memory) : memory[j].role = "tool"

\* position of the first handoff call of a batch, 0 when it has none
FirstHandoff(calls) ==
  IF \E i \in 1..Len(calls) : IsHandoffCall(calls[i])
    THEN CHOOSE i \in 1..Len(calls) :
           IsHandoffCall(calls[i]) /\ \A j \in 1..(i - 1) : ~IsHandoffCall(calls[j])
    ELSE 0

\* ------------------------------------------------------------- claims

\* C1 (as stated): for a response whose calls c1..cn contain no handoff call,
\* call i+1 is dispatched only when the tool message of call i is in the
\* context, and once the batch is over the context holds, directly after the
\* assistant message, exactly n tool messages, the i-th with the id and the
\* name of ci.
C1_ResultsInCallOrder ==
  /\ (pc = "in_tool") =>
        /\ ResultsFollow(batchStart, tool_calls, idx - 1)
        /\ Len(memory) = batchStart + idx - 1
  /\ (LastBatchEnded /\ FirstHandoff(tool_calls) = 0) =>
        /\ ResultsFollow(batchStart, tool_calls, Len(tool_calls))
        /\ NothingMore(batchStart, Len(tool_calls))

\* C2 (as stated): when the k-th call of a batch is its handoff call, the run
\* ends with the results of c1..c(k-1) in order, then the acknowledgment of
\* ck, it returns one Handoff Request for ck, and none of c(k+1)..cn is
\* dispatched.
C2_HandoffHaltsBatch ==
  LET k == FirstHandoff(tool_calls) IN
  (LastBatchEnded /\ k > 0) =>
    /\ pc = "returned"
    /\ ResultsFollow(batchStart, tool_calls, k)
    /\ memory[batchStart + k].content = TransferAck(TargetOf(tool_calls[k].function.name))
    /\ Len(memory) = batchStart + k
    /\ result = Some([target_agent_name |-> TargetOf(tool_calls[k].function.name),
                      reason |-> ReasonOf(json_loads(tool_calls[k].function.arguments))])
    /\ \A i \in (k + 1)..Len(tool_calls) :
          \A d \in 1..Len(dispatched) : dispatched[d] # tool_calls[i].id

\* C3: the model is never called with the iteration counter at or above the
\* maximum; with the counter at the maximum the run ends as a normal
\* completion: it returns None and nothing is raised.
C3_BudgetStopsModelCalls ==
  /\ (pc = "await_model") => agent_engine.loop_count < MaxIterations
  /\ (agent_engine.loop_count >= MaxIterations) =>
        /\ pc \in {"loop_head", "returned", "idle"}
        /\ (pc = "returned" => result = None)
        /\ raisedBy = "none"

\* C3 witness: a run that ended because the counter reached the maximum
C3_Witness ==
  /\ pc = "returned"
  /\ agent_engine.loop_count = MaxIterations
  /\ result = None
  /\ nModelCalls >= MaxIterations

C7_EveryMessageTagged ==
  [][ (Len(memory') > Len(memory)) =>
        memory'[Len(memory')].agent_name = Some(agent_definition.name) ]_vars

ResultCount(id) ==
  Cardinality({ j \in 1..Len(memory) :
                  memory[j].role = "tool" /\ memory[j].tool_call_id = Some(id) })

\* C9 (as stated): when run_loop has returned, every call listed in an
\* assistant message has exactly one tool-role message with its id.
C9_EveryCallAnsweredOnce ==
  (pc = "returned") =>
    \A q \in 1..Len(memory) :
      \A i \in 1..Len(CallsAt(q)) : ResultCount(CallsAt(q)[i].id) = 1

\* how many calls of a batch run_loop answers: all of them, or those up to
\* and including the first handoff call, or those before the first call
\* whose arguments json.loads rejects, whichever comes first
Answered(calls) ==
  LET stops == { i \in 1..Len(calls) : BadArguments(calls[i]) \/ IsHandoffCall(calls[i]) } IN
  IF stops = {} THEN Len(calls)
  ELSE LET s == CHOOSE i \in stops : \A j \in stops : i <= j IN
       IF BadArguments(calls[s]) THEN s - 1 ELSE s

\* C9 (amended): when run_loop has returned, no call id has more than one
\* tool-role message; in every batch the calls up to and including its first
\* handoff call (all calls when it has none), and before the first call with
\* arguments that are not valid JSON, have exactly one; the calls after that
\* point have none.
C9_ProcessedCallsAnsweredOnce ==
  (pc = "returned") =>
    \A q \in 1..Len(memory) :
      LET calls == CallsAt(q) IN
      \A i \in 1..Len(calls) :
        ResultCount(calls[i].id) = IF i <= Answered(calls) THEN 1 ELSE 0

\* C9 witness: a run that returned a handoff from the middle of a batch,
\* after a regular call and before a call that is left unanswered
C9_Witness ==
  /\ pc = "returned"
  /\ result # None
  /\ Len(tool_calls) = 3
  /\ FirstHandoff(tool_calls) = 2
  /\ ResultCount(tool_calls[1].id) = 1
  /\ ResultCount(tool_calls[3].id) = 0

FirstCallAfterHandoff ==
  /\ pc = "await_model"
  /\ Len(memory) > 0
  /\ memory[Len(memory)] = UserMessage(ContinuationInput)

HandoffToRegistered ==
  /\ pc = "returned"
  /\ result # None
  /\ \A r \in result : ~get_agent(r.target_agent_name).raised

C13_ModelFailurePropagates ==
  [][ /\ (raisedBy # "model" /\ raisedBy' = "model") =>
            /\ pc = "await_model"
            /\ pc' = "raised"
            /\ memory' = memory
      /\ (pc = "raised" /\ raisedBy = "model") =>
            /\ pc' = "idle"
            /\ memory' = memory
            /\ nModelCalls' = nModelCalls
            /\ agent_engine' = agent_engine
            /\ agent_definition' = agent_definition ]_vars

\* C13 witness: a request ended by a model failure on the call that
\* followed a tool result
C13_Witness ==
  /\ pc = "idle"
  /\ raisedBy = "model"
  /\ nModelCalls >= 2
  /\ Len(memory) > 0
  /\ memory[Len(memory)].role = "tool"

\* ------------------------------------------------------------------ C14
LastOp == last[Len(last)]

\* a file written by save_memory, or one like it: a JSON list of items
\* that Message accepts, each with an ISO timestamp
ValidSnapshot(file) ==
  /\ file # None
  /\ ~json_loads_text(TheOne(file)).raised
  /\ \A i \in 1..Len(json_loads_text(TheOne(file)).data) :
        LET item == json_loads_text(TheOne(file)).data[i] IN
        ItemAccepted(item) /\ ~fromisoformat(item["timestamp"]).raised

\* the messages of a snapshot
MessagesOf(file) == LoadItems(json_loads_text(TheOne(file)).data, now)

\* C14: right after load_memory of a valid snapshot S the store holds
\* exactly the messages of S, in order, whatever it held before.
C14_LoadReplaces ==
  (Len(last) > 0 /\ LastOp.op = "load" /\ ValidSnapshot(files[LastOp.file])) =>
     store = MessagesOf(files[LastOp.file])

\* ------------------------------------------------------------------ C15
\* the latest three operations were save_memory(f), clear_memory(),
\* load_memory(f)
SavedClearedLoaded ==
  /\ Len(last) >= 3
  /\ last[Len(last) - 2].op = "save"
  /\ last[Len(last) - 1].op = "clear"
  /\ last[Len(last)].op = "load"
  /\ last[Len(last)].file = last[Len(last) - 2].file

\* the list save_memory was given
SavedList == last[Len(last) - 2].before

\* C15: after save_memory(f), clear_memory() and load_memory(f) the store
\* has the length of the saved list and, position by position, the same
\* role, content and timestamp.
C15_SaveClearLoadRoundTrip ==
  SavedClearedLoaded =>
     /\ Len(store) = Len(SavedList)
     /\ \A i \in 1..Len(store) :
          /\ store[i].role = SavedList[i].role
          /\ store[i].content = SavedList[i].content
          /\ store[i].timestamp = SavedList[i].timestamp

\* C15 witness: a round trip of two different messages, one stamped on a
\* whole second and one with a fraction
C15_Witness ==
  /\ SavedClearedLoaded
  /\ Len(SavedList) = 2
  /\ SavedList[1].role = "assistant"
  /\ SavedList[1].tool_calls # None
  /\ SavedList[1].timestamp % 2 = 0
  /\ SavedList[2].role = "tool"
  /\ SavedList[2].timestamp % 2 = 1

\* ------------------------------------------------------------------ C16
\* C16: in every store reached by appends, loads and clears the
\* timestamps never decrease along the list.
C16_ChronologicalOrder ==
  \A i \in 1..(Len(store) - 1) : store[i].timestamp <= store[i + 1].timestamp

\* ------------------------------------------------------------------ C17
\* the handler of c has finished
Finished(c) == client_socket[c].state = "closed"

\* C17: no connection is ever sent more than one response frame; a
\* response frame has been sent only when the handler has closed the
\* connection, and always by then when the client is still there to be
\* written to, whether the handler got there through a response or
\* through the error path; the handler works on the first frame the
\* client wrote, and a second frame, read or not, gets no response of its
\* own.
C17_OneResponseThenClose ==
  \A c \in Conns :
    /\ Len(client_socket[c].outbound) <= 1
    /\ Len(client_socket[c].outbound) = 1 => Finished(c)
    /\ (Finished(c) /\ client_socket[c].peer = "open") =>
          Len(client_socket[c].outbound) = 1
    /\ Finished(c) <=> At(c, "done")
    /\ thread[c].message # None =>
         LocalMessage(c, thread) =
           [id |-> c] @@ json_loads_text(b64decode(requests[c][1])).data

\* C17 witness: one connection answered "pong" and closed with a second
\* request left unread, another closed after the error path answered
C17_Witness ==
  \E c, d \in Conns :
    /\ Finished(c)
    /\ Len(requests[c]) = 2
    /\ Len(client_socket[c].inbound) = 1
    /\ ReceivedBy(c) = <<Response("success", StrValue(<<"pong">>))>>
    /\ Finished(d)
    /\ requests[d] = <<b64encode(Garbage)>>
    /\ ReceivedBy(d) = <<ErrorResponse(<<"JSONDecodeError">>)>>

\* ------------------------------------------------------------------ C18
\* the response the service computes from a frame taken alone
Expected(frame) ==
  LET parsed == ParseFrame(frame) IN
  IF parsed.raised THEN ErrorResponse(parsed.error)
  ELSE LET outcome == ProcessMessage(parsed.data) IN
       CASE outcome.kind = "response" -> outcome.response
         [] outcome.kind = "raise"    -> ErrorResponse(outcome.error)
         [] outcome.kind = "tool"     -> ToolResponse(outcome.tool_name, outcome.tool_args)

\* a step of the handler of c
HandlerStep(c) ==
  \/ \E n \in 1..2, lenient \in BOOLEAN : Receive(c, n, lenient)
  \/ Process(c)
  \/ ToolReturns(c)
  \/ Send(c)
  \/ SendError(c)

\* C18: whatever the other connections are doing, a client that sent one
\* request gets the response computed from that request; and while the
\* service runs a pending connection can always be accepted and an
\* accepted one can always take its next step, also when other handlers
\* are still inside a tool.
C18_OwnResponseUnderInterleaving ==
  \A c \in Conns :
    /\ (Finished(c) /\ Len(requests[c]) = 1 /\ client_socket[c].peer = "open") =>
          ReceivedBy(c) = <<Expected(requests[c][1])>>
    /\ (is_running /\ client_socket[c].state = "connected") => ENABLED Accept(c)
    /\ client_socket[c].state = "accepted" => ENABLED HandlerStep(c)

\* C18 witness: one handler still inside its tool while another
\* connection, with a different request, has been answered and closed
C18_Witness ==
  \E c, d \in Conns :
    /\ At(c, "in_tool")
    /\ Finished(d)
    /\ requests[d] = <<FrameOf([command |-> "ping"])>>
    /\ ReceivedBy(d) = <<Response("success", StrValue(<<"pong">>))>>

\* ------------------------------------------------------------------ C19
\* the request the client of c sent, when it sent one well-formed frame
\* and waits for the answer
RequestOf(c) == ParseFrame(requests[c][1]).data

SentOneRequest(c) ==
  /\ Len(requests[c]) = 1
  /\ ~ParseFrame(requests[c][1]).raised
  /\ client_socket[c].peer = "open"

\* an execute request for one of the sum tools with both arguments
ValidSum(message) ==
  /\ CommandOf(message) = "execute"
  /\ "tool_name" \in DOMAIN message
  /\ message["tool_name"] \in {<<"core_sum">>, <<"plugin_async_sum">>}
  /\ "tool_args" \in DOMAIN message
  /\ DOMAIN message["tool_args"] = {"a", "b"}

\* C19: an execute request for a tool of the table with valid arguments
\* is answered {status: success, message: r} with r the tool's return
\* value, a + b for the sum tools (8 for 3 and 5), also when the tool is
\* asynchronous.
C19_ExecuteReturnsToolResult ==
  \A c \in Conns :
    (Finished(c) /\ SentOneRequest(c) /\ ValidSum(RequestOf(c))) =>
       /\ ReceivedBy(c) =
            <<Response("success",
                 IntValue(RequestOf(c)["tool_args"]["a"] + RequestOf(c)["tool_args"]["b"]))>>
       /\ ReceivedBy(c)[1].message = IntValue(8)

\* C19 witness: core_sum and the asynchronous tool both answered
C19_Witness ==
  \E c, d \in Conns :
    /\ Finished(c) /\ SentOneRequest(c)
    /\ ValidSum(RequestOf(c))
    /\ Get(RequestOf(c), "tool_name") = Some(<<"core_sum">>)
    /\ ReceivedBy(c) = <<Response("success", IntValue(8))>>
    /\ Finished(d) /\ SentOneRequest(d)
    /\ ValidSum(RequestOf(d))
    /\ Get(RequestOf(d), "tool_name") = Some(<<"plugin_async_sum">>)
    /\ ReceivedBy(d) = <<Response("success", IntValue(8))>>

\* ------------------------------------------------------------------ C20
\* the requests C20 lists
NoSuchCommand(message) ==
  "command" \notin DOMAIN message \/
  message["command"] \notin {"ping", "list_tools", "execute"}

IsExecute(message) == "command" \in DOMAIN message /\ message["command"] = "execute"

NoToolName(message) == IsExecute(message) /\ "tool_name" \notin DOMAIN message

UnknownTool(message) ==
  /\ IsExecute(message)
  /\ "tool_name" \in DOMAIN message
  /\ message["tool_name"] \notin DOMAIN ServerTools

ToolRaises(message) ==
  /\ IsExecute(message)
  /\ "tool_name" \in DOMAIN message
  /\ message["tool_name"] \in DOMAIN ServerTools
  /\ CallTool(message["tool_name"],
              IF "tool_args" \in DOMAIN message THEN message["tool_args"]
              ELSE EmptyDict).raised

\* C20: a bad or missing command, an execute without tool_name, an
\* execute of a tool that is not in the table and an execute whose tool
\* raises are each answered with status error; the service is still
\* running whenever a connection has been handled, and a connection made
\* after an error answer can be accepted.
C20_ErrorsAnsweredAndServiceContinues ==
  \A c \in Conns :
    /\ (Finished(c) /\ SentOneRequest(c) /\
        (NoSuchCommand(RequestOf(c)) \/ NoToolName(RequestOf(c)) \/
         UnknownTool(RequestOf(c)) \/ ToolRaises(RequestOf(c)))) =>
          /\ Len(ReceivedBy(c)) = 1
          /\ ReceivedBy(c)[1].status = "error"
    /\ client_socket[c].state \in {"accepted", "closed"} => is_running
    /\ (client_socket[c].after_error /\ client_socket[c].state = "connected") =>
          ENABLED Accept(c)

\* C20 witness: a request without a command answered with an error, and a
\* connection made after that answer served with a success
C20_Witness ==
  \E c, d \in Conns :
    /\ Finished(c) /\ SentOneRequest(c)
    /\ "command" \notin DOMAIN RequestOf(c)
    /\ ReceivedBy(c)[1].status = "error"
    /\ client_socket[d].after_error
    /\ Finished(d) /\ SentOneRequest(d)
    /\ ReceivedBy(d) = <<Response("success", IntValue(8))>>

\* ------------------------------------------------------------------ C21
\* a list value of a response: the names of a set of tools
ListValue(names) == [list |-> names]

\* C21: a client that sent one list_tools request is answered
\* {status: success, message: L}, with L the names of the tools in the
\* server's capability table.
C21_ListToolsAnswered ==
  \A c \in Conns :
    (Finished(c) /\ SentOneRequest(c) /\ CommandOf(RequestOf(c)) = "list_tools") =>
       /\ Len(ReceivedBy(c)) = 1
       /\ ReceivedBy(c)[1].status = "success"
       /\ "list" \in DOMAIN ReceivedBy(c)[1].message
       /\ ReceivedBy(c)[1].message = ListValue(DOMAIN ServerTools)

\* ------------------------------------------------------------------ C22
Pong == Response("success", StrValue(<<"pong">>))

\* C22: a client that sent one ping request, with or without other fields
\* in it, is answered {status: success, message: pong} and send_message
\* returns that response, whatever the other connections are doing.
C22_PingAnsweredPong ==
  \A c \in Conns :
    (Finished(c) /\ SentOneRequest(c) /\ Get(RequestOf(c), "command") = Some("ping")) =>
       /\ ReceivedBy(c) = <<Pong>>
       /\ client_result[c] = Some(Pong)

\* C22 witness: a ping that carries an id and another field answered
\* pong while the handler of another connection is inside its tool
C22_Witness ==
  \E c, d \in Conns :
    /\ Finished(c) /\ SentOneRequest(c)
    /\ DOMAIN RequestOf(c) = {"command", "id", "extra"}
    /\ client_result[c] = Some(Pong)
    /\ At(d, "in_tool")

\* ------------------------------------------------------------------ C23
\* the client of c wrote one frame, and it is malformed
Malformed(c) == Len(requests[c]) = 1 /\ ParseFrame(requests[c][1]).raised

\* C23: a frame that is not base64, not JSON or not a JSON object never
\* reaches _process_message; once its handler has ended the connection is
\* closed and, when the client was still there to be written to, it has
\* been sent one response with status error (none otherwise); the service
\* is still running, and a connection that is pending then can be
\* accepted.
C23_MalformedFrameAnswered ==
  \A c \in Conns :
    Malformed(c) =>
      /\ thread[c].pc \in {"none", "recv", "failed", "done"}
      /\ At(c, "done") =>
           /\ Finished(c)
           /\ is_running
           /\ Writable(c) => /\ Len(ReceivedBy(c)) = 1
                             /\ ReceivedBy(c)[1].status = "error"
           /\ ~Writable(c) => client_socket[c].outbound = <<>>
           /\ \A d \in Conns : client_socket[d].state = "connected" => ENABLED Accept(d)

\* C23 witness: a frame that is not base64 answered with an error, and a
\* connection made after that answer, carrying a JSON list, accepted and
\* answered with an error too
C23_Witness ==
  \E c, d \in Conns :
    /\ requests[c] = <<NotBase64>>
    /\ Finished(c)
    /\ ReceivedBy(c) = <<ErrorResponse(<<"Incorrect padding">>)>>
    /\ client_socket[d].after_error
    /\ requests[d] = <<b64encode(ListText)>>
    /\ Finished(d)
    /\ ReceivedBy(d)[1].status = "error"

\* ------------------------------------------------------------------ C24
\* C24: while the socket path does not exist every client call that has
\* returned has returned the "executor is not available" error result, no
\* client has opened a connection and no frame has been sent.
C24_NoSocketNoConnection ==
  ~socket_path =>
    \A c \in Conns :
      /\ client_socket[c].state = "unused"
      /\ requests[c] = <<>>
      /\ client_result[c] \in {None, Some(NotAvailable)}

\* C24 witness: every client call made without a socket path has returned
\* the error result
C24_Witness ==
  /\ ~socket_path
  /\ \A c \in Conns : client_result[c] = Some(NotAvailable)

\* ------------------------------------------------------------------ C25
\* the text holds the token
Contains(text, token) == \E j \in 1..Len(text) : text[j] = token

\* the i-th execute call was for a name of the capability table
Registered(i) == executed[i].tool_name \in DOMAIN Capabilities

\* C25: every execute call for a name that is not in the capability table
\* raised an error whose message contains "not found", and no driver was
\* invoked for it.
C25_UnknownToolNotFound ==
  \A i \in 1..Len(executed) :
    ~Registered(i) =>
       /\ executed[i].outcome.raised
       /\ Contains(executed[i].outcome.text, " not found")
       /\ ~executed[i].outcome.driver_invoked

\* C25 witness: an unknown name executed after a call that did reach the
\* driver
C25_Witness ==
  /\ Len(executed) = 2
  /\ Registered(1) /\ executed[1].outcome.driver_invoked
  /\ executed[2].tool_name = <<"nope">>
  /\ executed[2].outcome.raised

\* ------------------------------------------------------------------ C26
\* the i-th call ran into an exception inside the driver: the capability
\* raised, a cli capability returned something that is not a string, the
\* child process could not be started, or the container could not be
\* reached
RaisedInDriver(i) ==
  LET call == executed[i]
      type == TypeOf(call.tool_name)
      called == TheFunction(call.tool_name, call.tool_args) IN
  /\ Registered(i)
  /\ IF execution_mode = "local"
       THEN \/ type \in {"cli", "python"} /\ called.raised
            \/ type = "cli" /\ ~called.is_str
            \/ type = "cli" /\ ~call.env.started
       ELSE \/ type = "cli" /\ (called.raised \/ ~called.is_str)
            \/ type \in {"cli", "python"} /\ call.env.container = "unreachable"

\* C26: no execute call for a registered tool raised; and a call that ran
\* into an exception inside the driver gave the string "Failed to execute
\* tool: ..." as its result.
C26_DriverExceptionsAreResults ==
  \A i \in 1..Len(executed) :
    /\ Registered(i) => ~executed[i].outcome.raised
    /\ RaisedInDriver(i) =>
         /\ executed[i].outcome.driver_invoked
         /\ executed[i].outcome.text[1] = "Failed to execute tool: "

\* C26 witness: with the in-process driver, a cli capability that returned
\* a list and a command whose child process could not be started
C26_Witness ==
  /\ execution_mode = "local"
  /\ Len(executed) = 2
  /\ executed[1].tool_name = <<"cli_list">>
  /\ executed[1].tool_args = EmptyDict
  /\ executed[1].outcome.text[1] = "Failed to execute tool: "
  /\ executed[2].tool_name = <<"echo">>
  /\ executed[2].tool_args = EmptyDict
  /\ ~executed[2].env.started
  /\ executed[2].outcome.text[1] = "Failed to execute tool: "

\* ------------------------------------------------------------------ C27
\* the i-th call ran the command of a cli capability as a child process
\* of the in-process driver
RanChild(i) ==
  /\ execution_mode = "local"
  /\ executed[i].tool_name = <<"echo">>
  /\ executed[i].tool_args = EmptyDict
  /\ executed[i].env.started

\* C27: the result of a cli capability run by the in-process driver holds
\* what the child wrote on standard output and what it wrote on standard
\* error when the exit code is zero, and is "Error: " followed by its
\* standard error when the exit code is not zero.
C27_CliCombinedOutput ==
  \A i \in 1..Len(executed) :
    RanChild(i) =>
      LET proc == executed[i].env
          text == executed[i].outcome.text IN
      IF proc.returncode = 0
        THEN /\ \A j \in 1..Len(proc.stdout.body) : Contains(text, proc.stdout.body[j])
             /\ \A j \in 1..Len(proc.stderr.body) : Contains(text, proc.stderr.body[j])
        ELSE text = <<"Error: ">> \o proc.stderr.body

\* ------------------------------------------------------------------ C28
\* the i-th call ran a native capability through the isolated driver, in
\* a container that could be reached
RanCompanion(i) ==
  /\ execution_mode = "docker"
  /\ TypeOf(executed[i].tool_name) = "python"
  /\ executed[i].env.container = "running"

\* the executor response the companion process printed
ReplyOf(i) == executed[i].env.output.body[2]

\* C28: the result of a native capability run through the isolated driver
\* is str(m) when the executor answered {status: success, message: m} and
\* "Error: e" when it answered {status: error, message: e}.
C28_ReplyParsedBack ==
  \A i \in 1..Len(executed) :
    RanCompanion(i) =>
      /\ executed[i].outcome.text[1] # "repr"
      /\ executed[i].outcome.text =
           IF ReplyOf(i).status = "success" THEN StrOf(ReplyOf(i).message)
           ELSE <<"Error: ">> \o StrOf(ReplyOf(i).message)

\* ------------------------------------------------------------------ C29
\* the engine built last has made a model call
Called == built # None /\ TheOne(built).passed # None

\* the tools passed to that call
Passed == TheOne(TheOne(built).passed)

\* how many entries of the passed tools carry the name
EntriesNamed(name) == Cardinality({i \in 1..Len(Passed) : Passed[i].name = name})

Elements(seq) == {seq[i] : i \in 1..Len(seq)}

\* C29 (as stated): the tools passed to a model call are the schema of
\* every declared tool followed by one transfer_to_<t> tool for every
\* permitted handoff target t.
C29_AllDeclaredToolsAndTargets ==
  Called =>
    LET definition == TheOne(built).agent_definition
        n == Len(definition.tools) IN
    /\ Len(Passed) = n + Len(definition.handoffs)
    /\ \A i \in 1..n : Passed[i] = openai_tool_def(definition.tools[i])
    /\ \A i \in 1..Len(definition.handoffs) :
          Passed[n + i] = handoff_tool(definition.handoffs[i])

\* C29 (amended): the tools passed to a model call hold exactly one schema
\* for each declared tool that is in the capability table with a schema,
\* exactly one transfer_to_<t> tool, whose only and required parameter is
\* "reason", for each permitted target t that was registered when the
\* engine was built, and nothing else: a declared tool or target that is
\* not registered has no entry.
C29_RegisteredToolsAndTargets ==
  Called =>
    LET definition == TheOne(built).agent_definition
        then == TheOne(built).registry_then
        targets == {t \in Elements(definition.handoffs) : dict_has(then, t)}
        tools == {t \in Elements(definition.tools) : HasSchema(t)} IN
    /\ \A t \in tools : EntriesNamed(t) = 1
    /\ \A t \in targets : EntriesNamed(<<TransferPrefix>> \o t) = 1
    /\ Len(Passed) = Cardinality(tools) + Cardinality(targets)
    /\ \A i \in 1..Len(Passed) :
          \/ Passed[i].name \in tools /\ Passed[i] = openai_tool_def(Passed[i].name)
          \/ /\ \E t \in targets : Passed[i].name = <<TransferPrefix>> \o t
             /\ Passed[i].properties = {"reason"}
             /\ Passed[i].required = {"reason"}

\* C29 witness: an agent that declares core_sum and the unregistered tool
\* ghost, and may hand off to B, registered, and to Z, not registered,
\* makes a model call with core_sum's schema and transfer_to_B
C29_Witness ==
  /\ Called
  /\ TheOne(built).agent_definition.tools = <<<<"core_sum">>, <<"ghost">>>>
  /\ TheOne(built).agent_definition.handoffs = <<AgentB, AgentZ>>
  /\ Passed = <<openai_tool_def(<<"core_sum">>), handoff_tool(AgentB)>>

\* ------------------------------------------------------------------ C30
\* the definition registered last under the name in the calls so far
LatestOf(history, name) ==
  history[CHOOSE i \in 1..Len(history) :
            /\ history[i].name = name
            /\ \A j \in (i + 1)..Len(history) : history[j].name # name]

NamesIn(history) == {history[i].name : i \in 1..Len(history)}

\* C30: after any sequence of register_agent calls get_agent of a
\* registered name gives the definition registered last under it, and the
\* registry holds one entry per registered name; every get_agent call
\* made gave that definition, or, for a name never registered, raised an
\* error whose message contains "not found" and left the registry as it
\* was.
C30_RegistryKeepsLatest ==
  /\ \A name \in NamesIn(registered) :
        /\ ~registry_get_agent(agents, name).raised
        /\ registry_get_agent(agents, name).value = Some(LatestOf(registered, name))
  /\ Len(agents) = Cardinality(NamesIn(registered))
  /\ \A i, j \in 1..Len(agents) : agents[i].key = agents[j].key => i = j
  /\ \A k \in 1..Len(got) :
        IF got[k].agent_name \in NamesIn(got[k].history)
          THEN /\ ~got[k].result.raised
               /\ got[k].result.value = Some(LatestOf(got[k].history, got[k].agent_name))
          ELSE /\ got[k].result.raised
               /\ Contains(got[k].result.text, " not found")
               /\ got[k].result.agents = got[k].before

\* C30 witness: three registrations, two of them under the same name, and
\* then a get_agent of a name never registered
C30_Witness ==
  /\ Len(registered) = 3
  /\ registered[1].name = registered[3].name
  /\ registered[1] # registered[3]
  /\ Len(agents) = 2
  /\ Len(got) = 1
  /\ got[1].agent_name = AgentZ
  /\ got[1].history = registered
  /\ got[1].result.raised

\* ------------------------------------------------------------------ C31
\* the step is a model response that opens no batch of tool calls
\* (is_tool_call() is false) and is not a failure of the call
TextResponse ==
  /\ pc = "await_model"
  /\ pc' # "raised"
  /\ batchStart' = batchStart

C32_ContextIsPromptThenHistory ==
  (pc = "await_model") =>
     /\ agent_engine.agent_definition = agent_definition
     /\ Len(context) = Len(memory) + 1
     /\ context[1].role = "system"
     /\ context[1].content = agent_definition.system_prompt
     /\ \A i \in 1..Len(memory) : context[i + 1] = to_openai_format(memory[i])

\* C32 witness: a model call made after a tool result, by the second
\* agent of the request
C32_Witness ==
  /\ pc = "await_model"
  /\ agent_definition.name = AgentB
  /\ Len(memory) >= 5
  /\ \E i \in 1..Len(memory) : memory[i].role = "tool" /\ memory[i].content = <<"8">>

\* ------------------------------------------------------------------ C33
\* where the current request starts in the store: the position of the
\* latest user turn typed by the user (a continuation turn is not one)
RequestStart ==
  LET typed == {i \in 1..Len(memory) :
                  \E user_input \in UserInputs : memory[i] = UserMessage(user_input)} IN
  IF typed = {} THEN 0 ELSE CHOOSE i \in typed : \A j \in typed : j <= i

\* the generate calls of the current request: each answered call left one
\* assistant message, and one call may be in flight
ModelCallsOfRequest ==
  Cardinality({i \in (RequestStart + 1)..Len(memory) : memory[i].role = "assistant"})
    + (IF pc = "await_model" THEN 1 ELSE 0)

C34_HandoffOnlyToPermittedTargets ==
  (pc = "returned" /\ result # None) =>
     \A request \in result :
        request.target_agent_name \in agent_engine.agent_definition.handoffs

\* ------------------------------------------------------------------ C35
\* C35: arguments that are not valid JSON never raise out of run_loop; a
\* call with such arguments that the for loop has reached is answered by
\* an "Error: ..." tool message with its id.
C35_BadArgumentsRecovered ==
  /\ raisedBy # "json"
  /\ (pc = "tools" /\ batchStart > 0) =>
        \A k \in 1..(idx - 1) :
           BadArguments(tool_calls[k]) =>
              \E j \in (batchStart + 1)..Len(memory) :
                 /\ memory[j].role = "tool"
                 /\ memory[j].tool_call_id = Some(tool_calls[k].id)
                 /\ IsPrefix(<<"Error: ">>, memory[j].content)

\* ------------------------------------------------------------------ C36
\* a new manager in a workspace whose old.json was cut short while it was
\* written
TruncatedInit ==
  /\ SessionStart
  /\ FreshManager
  /\ files = [f \in Files |-> IF f = "old.json" THEN Some(Truncated) ELSE None]
  /\ ServerStart
  /\ socket_path = TRUE
  /\ DispatchStart
  /\ RegistryStart
  /\ BootStart

TruncatedSpec == TruncatedInit /\ [][MemNext]_vars

\* the file cannot be loaded: it is missing, is not JSON, or holds an
\* item Message(**item) rejects
LoadFails(file) ==
  \/ file = None
  \/ json_loads_text(TheOne(file)).raised
  \/ \E i \in 1..Len(json_loads_text(TheOne(file)).data) :
        ~ItemAccepted(json_loads_text(TheOne(file)).data[i])

\* C36: right after a load_memory that failed the store is what it was
\* before the call.
C36_FailedLoadLeavesStore ==
  (Len(last) > 0 /\ LastOp.op = "load" /\ LoadFails(files[LastOp.file])) =>
     store = LastOp.before

\* ------------------------------------------------------------------ C37
\* ChatSession.clear_history between two requests: the store is cleared
\* and the active agent's system prompt is put back as a system message
SessionClearHistory ==
  /\ pc = "idle"
  /\ memory' = IF agent_definition.system_prompt # <<>>
                 THEN add_memory(<<>>, Message("system", agent_definition.system_prompt,
                                               None, None, None, None))
                 ELSE <<>>
  /\ UNCHANGED <<atHandoff, context, agent_definition, agent_engine, pc, current_input,
                 tool_calls, idx, result, nModelCalls, nToolCalls, batchStart, dispatched,
                 raisedBy>>
  /\ UNCHANGED outside_session

\* the chat session with its /clear command
ClearNext ==
  \/ Next
  \/ SessionClearHistory

ClearSpec == Init /\ [][ClearNext]_vars

\* C37: the context of every model call holds exactly one system-role
\* entry, the first one, and it carries the active agent's system prompt.
C37_OneSystemEntryFirst ==
  (pc = "await_model") =>
     /\ Cardinality({i \in 1..Len(context) : context[i].role = "system"}) = 1
     /\ context[1].role = "system"
     /\ context[1].content = agent_definition.system_prompt

\* ------------------------------------------------------------------ C38
\* C38: the model is called only while the iteration counter is below the
\* running agent's own max_iterations (its definition's value when it
\* sets one, the global setting otherwise).
C38_AgentMaximumBoundsLoop ==
  (pc = "await_model") =>
     agent_engine.loop_count < agent_engine.agent_definition.config.max_iterations

\* ------------------------------------------------------------------ C39
MaxSpins == 3

\* one turn of run()'s while loop on a server whose start-up failed:
\* self._socket.settimeout raises (AttributeError on None, OSError on a
\* closed socket), the inner except logs it, and the loop goes round with
\* is_running still True
IterationRaises ==
  /\ is_running
  /\ server_socket # "listening"
  /\ logged < MaxSpins
  /\ logged' = logged + 1
  /\ UNCHANGED server_socket
  /\ UNCHANGED outside_boot

\* ExodusExecutor(): the start-up went through, or it raised before the
\* socket was created, or after (bind, listen, chmod) and _clean_server
\* closed it; a failed start-up leaves no socket file
StartupInit ==
  /\ SessionStart
  /\ FreshManager
  /\ files = [f \in Files |-> None]
  /\ ServerStart
  /\ server_socket \in {"listening", "none", "closed"}
  /\ socket_path = (server_socket = "listening")
  /\ logged = 0
  /\ DispatchStart
  /\ RegistryStart

StartupNext ==
  \/ ExecNext
  \/ IterationRaises

StartupSpec == StartupInit /\ [][StartupNext]_vars

\* C39: on a server whose start-up failed, run() accepts nothing and does
\* not loop: the body of its while loop is not gone through again and
\* again.
C39_FailedStartupDoesNotLoop ==
  (server_socket # "listening") =>
     /\ \A c \in Conns : client_socket[c].state \in {"unused", "connected"}
     /\ logged <= 1

\* ------------------------------------------------------------------ C40
MaxEngines == 3   \* switch_agent is not called on an engine numbered so or above

\* ChatSession.switch_agent(agent_name) between two requests: on a
\* registered name the definition is swapped and _initialize_components
\* builds a new LocalJsonMemoryManager (an empty store) and a new engine
\* on it; on an unknown name the ValueError is caught and nothing changes
SwitchAgent(agent_name) ==
  /\ pc = "idle"
  /\ agent_engine.id < MaxEngines
  /\ LET found == get_agent(agent_name) IN
       IF found.raised
         THEN UNCHANGED <<memory, agent_definition, agent_engine>>
         ELSE LET new_agent == CHOOSE d \in found.value : TRUE IN
              /\ agent_definition' = new_agent
              /\ memory' = <<>>
              /\ agent_engine' = AgentEngine(SessionMemoryManager, new_agent, 0,
                                             agent_engine.id + 1)
  /\ UNCHANGED <<atHandoff, context, pc, current_input, tool_calls, idx, result,
                 nModelCalls, nToolCalls, batchStart, dispatched, raisedBy>>
  /\ UNCHANGED outside_session

\* the chat session with its /agent command
SwitchNext ==
  \/ Next
  \/ \E agent_name \in {AgentA, AgentB, AgentZ} : SwitchAgent(agent_name)

SwitchSpec == Init /\ [][SwitchNext]_vars

\* C40: when an engine is built between two requests (a successful
\* switch_agent), the store it uses still holds every message stored
\* before, in the same order.
C40_SwitchKeepsContext ==
  [][ (pc = "idle" /\ agent_engine'.id # agent_engine.id) =>
         /\ agent_engine'.memory_manager = SessionMemoryManager
         /\ IsPrefix(memory, memory') ]_vars

====
